---- MODULE Spec2Model ----
(***************************************************************************)
(* Business-card normalization engine of fileadex-demo                     *)
(* (src/src/app/api/process-card/route.ts, cleanAndNormalizeData and its   *)
(* helpers).  A JavaScript string is a sequence of one-character strings;  *)
(* the three regular expressions are matched the way the JavaScript        *)
(* backtracking matcher matches them (leftmost start, greedy quantifiers). *)
(***************************************************************************)
EXTENDS Integers, Sequences, FiniteSets, TLC

(***************************************************************************)
(* Characters and character classes                                        *)
(***************************************************************************)
Upper == {"A","B","C","D","E","F","G","H","I","J","K","L","M",
          "N","O","P","Q","R","S","T","U","V","W","X","Y","Z"}

Lower == {"a","b","c","d","e","f","g","h","i","j","k","l","m",
          "n","o","p","q","r","s","t","u","v","w","x","y","z"}

Digit == {"0","1","2","3","4","5","6","7","8","9"}

Letter == Upper \cup Lower

\* \s of the regular expressions and the characters trim() removes
Whitespace == {" ", "\t", "\n", "\r"}

\* [a-zA-Z0-9._%+-]
EmailLocalChar == Letter \cup Digit \cup {".", "_", "%", "+", "-"}

\* [a-zA-Z0-9.-]
DomainChar == Letter \cup Digit \cup {".", "-"}

\* [\s\-\(\)]
PhoneSepChar == Whitespace \cup {"-", "(", ")"}

\* [\s\-\(\)0-9]
PhoneBodyChar == PhoneSepChar \cup Digit

LowerOf ==
  [c \in Upper |->
     CASE c = "A" -> "a" [] c = "B" -> "b" [] c = "C" -> "c" [] c = "D" -> "d"
       [] c = "E" -> "e" [] c = "F" -> "f" [] c = "G" -> "g" [] c = "H" -> "h"
       [] c = "I" -> "i" [] c = "J" -> "j" [] c = "K" -> "k" [] c = "L" -> "l"
       [] c = "M" -> "m" [] c = "N" -> "n" [] c = "O" -> "o" [] c = "P" -> "p"
       [] c = "Q" -> "q" [] c = "R" -> "r" [] c = "S" -> "s" [] c = "T" -> "t"
       [] c = "U" -> "u" [] c = "V" -> "v" [] c = "W" -> "w" [] c = "X" -> "x"
       [] c = "Y" -> "y" [] c = "Z" -> "z"]

lowerChar(c) == IF c \in Upper THEN LowerOf[c] ELSE c

\* String.prototype.toLowerCase
toLowerCase(s) == [k \in 1..Len(s) |-> lowerChar(s[k])]

\* s.substring(a, b) with 0-based a inclusive, b exclusive, both clamped
substring(s, a, b) ==
  LET lo == IF a > Len(s) THEN Len(s) ELSE a
      hi == IF b > Len(s) THEN Len(s) ELSE b
  IN  IF hi <= lo THEN <<>> ELSE SubSeq(s, lo + 1, hi)

\* 1-based position just past the longest run of characters of class C
\* that starts at position i (i itself when s[i] is not in C)
RECURSIVE RunEnd(_, _, _)
RunEnd(s, i, C) ==
  IF i <= Len(s) /\ s[i] \in C THEN RunEnd(s, i + 1, C) ELSE i

\* s has the literal w at position i (case-sensitive)
HasAt(s, i, w) ==
  /\ i >= 1
  /\ i + Len(w) - 1 <= Len(s)
  /\ \A k \in 1..Len(w) : s[i + k - 1] = w[k]

\* s has the lower-case literal w at position i, letter case ignored (the i flag)
HasAtNoCase(s, i, w) ==
  /\ i >= 1
  /\ i + Len(w) - 1 <= Len(s)
  /\ \A k \in 1..Len(w) : lowerChar(s[i + k - 1]) = w[k]

\* String.prototype.includes
includes(s, w) == \E i \in 1..(Len(s) + 1) : HasAt(s, i, w)

\* String.prototype.trim
RECURSIVE TrimEnd(_)
TrimEnd(s) ==
  IF Len(s) > 0 /\ s[Len(s)] \in Whitespace THEN TrimEnd(SubSeq(s, 1, Len(s) - 1)) ELSE s

trim(s) ==
  LET b == RunEnd(s, 1, Whitespace)
  IN  TrimEnd(SubSeq(s, b, Len(s)))

\* s.replace(/\s+/g, " ")
RECURSIVE CollapseFrom(_, _)
CollapseFrom(s, i) ==
  IF i > Len(s) THEN <<>>
  ELSE IF s[i] \in Whitespace
       THEN <<" ">> \o CollapseFrom(s, RunEnd(s, i, Whitespace))
       ELSE <<s[i]>> \o CollapseFrom(s, i + 1)

collapseWhitespace(s) == CollapseFrom(s, 1)

\* s.replace(/[...]/g, "") for a class given by its complement: keeps the
\* characters of Keep
keepOnly(s, Keep) == SelectSeq(s, LAMBDA c : c \in Keep)

(***************************************************************************)
(* The three patterns.  XMatchAt(s, i) is the position just past the match *)
(* that starts at position i, or 0 when the pattern does not match there.  *)
(***************************************************************************)

\* \.[a-zA-Z]{2,} at position k: greedy run of letters, at least two
DotLettersEnd(s, k) ==
  IF k <= Len(s) /\ s[k] = "."
  THEN LET e == RunEnd(s, k + 1, Letter)
       IN  IF e - (k + 1) >= 2 THEN e ELSE 0
  ELSE 0

\* the allow-list with "io" left out
tldAllowListNoIo == << <<"c","o","m">>, <<"n","e","t">>, <<"o","r","g">>,
                       <<"c","o">>, <<"u","k">>, <<"c","a">>, <<"d","e">> >>

\* (com|net|org|io|co|uk|ca|de), in this order
tldAllowList == << <<"c","o","m">>, <<"n","e","t">>, <<"o","r","g">>, <<"i","o">>,
                   <<"c","o">>, <<"u","k">>, <<"c","a">>, <<"d","e">> >>

\* \.(com|net|org|io|co|uk|ca|de) at position k under the i flag: the first
\* alternative, in order, that the text continues with
DotTldEnd(s, k) ==
  IF k <= Len(s) /\ s[k] = "."
  THEN LET hits == {n \in 1..Len(tldAllowList) : HasAtNoCase(s, k + 1, tldAllowList[n])}
       IN  IF hits = {} THEN 0
           ELSE LET n == CHOOSE m \in hits : \A o \in hits : m <= o
                IN  k + 1 + Len(tldAllowList[n])
  ELSE 0

\* The dotted suffix that follows [a-zA-Z0-9.-]+ : \.[a-zA-Z]{2,} in the email
\* pattern and in the www alternative, \.(com|...|de) in the bare alternative
SuffixEnd(suffix, s, k) ==
  IF suffix = "letters" THEN DotLettersEnd(s, k) ELSE DotTldEnd(s, k)

\* [a-zA-Z0-9.-]+ followed by a dotted suffix: the greedy run is given back
\* one character at a time until the suffix matches, so the suffix starts at
\* the largest k it can
RECURSIVE GiveBack(_, _, _, _)
GiveBack(s, from, k, suffix) ==
  IF k <= from THEN 0
  ELSE IF SuffixEnd(suffix, s, k) # 0 THEN SuffixEnd(suffix, s, k)
       ELSE GiveBack(s, from, k - 1, suffix)

DomainThen(s, from, suffix) ==
  GiveBack(s, from, RunEnd(s, from, DomainChar), suffix)

\* /[a-zA-Z0-9._%+-]+@[a-zA-Z0-9.-]+\.[a-zA-Z]{2,}/
emailMatchAt(s, i) ==
  LET a == RunEnd(s, i, EmailLocalChar)
  IN  IF a > i /\ a <= Len(s) /\ s[a] = "@"
      THEN DomainThen(s, a + 1, "letters")
      ELSE 0

\* /[\+]?[\s\-\(\)]*[0-9][\s\-\(\)0-9]{8,15}/
phoneMatchAt(s, i) ==
  LET j == IF i <= Len(s) /\ s[i] = "+" THEN i + 1 ELSE i
      d == RunEnd(s, j, PhoneSepChar)
  IN  IF d <= Len(s) /\ s[d] \in Digit
      THEN LET e == RunEnd(s, d + 1, PhoneBodyChar)
               r == e - (d + 1)
           IN  IF r >= 8 THEN d + 1 + (IF r > 15 THEN 15 ELSE r) ELSE 0
      ELSE 0

\* /(www\.[a-zA-Z0-9.-]+\.[a-zA-Z]{2,}|[a-zA-Z0-9.-]+\.(com|net|org|io|co|uk|ca|de))/i
websiteMatchAt(s, i) ==
  LET www  == HasAtNoCase(s, i, <<"w","w","w",".">>)
      alt1 == IF www THEN DomainThen(s, i + 4, "letters") ELSE 0
  IN  IF alt1 # 0 THEN alt1 ELSE DomainThen(s, i, "tld")

\* The three patterns by name
MatchAt(regex, s, i) ==
  CASE regex = "emailRegex"   -> emailMatchAt(s, i)
    [] regex = "phoneRegex"   -> phoneMatchAt(s, i)
    [] regex = "websiteRegex" -> websiteMatchAt(s, i)

\* String.prototype.match with a g-flagged pattern: every match, left to
\* right, each search resuming where the previous match ended.  JavaScript
\* returns null exactly when this sequence is empty.
RECURSIVE MatchAllFrom(_, _, _)
MatchAllFrom(regex, s, pos) ==
  LET starts == {i \in pos..Len(s) : MatchAt(regex, s, i) # 0}
  IN  IF starts = {} THEN <<>>
      ELSE LET b == CHOOSE i \in starts : \A j \in starts : i <= j
               e == MatchAt(regex, s, b)
           IN  <<SubSeq(s, b, e - 1)>> \o MatchAllFrom(regex, s, e)

match(s, regex) == MatchAllFrom(regex, s, 1)


(***************************************************************************)
(* Value normalizers (route.ts 557-652)                                    *)
(***************************************************************************)

\* s.replace(/[...]/g, to) for a character class From
replaceChars(s, From, to) == [k \in 1..Len(s) |-> IF s[k] \in From THEN to ELSE s[k]]

\* cleanEmail without the second replacement
cleanEmailKeepsOne(email) ==
  trim(replaceChars(toLowerCase(email), {"0", "O"}, "o"))

cleanEmail(email) ==
  trim(replaceChars(replaceChars(toLowerCase(email), {"0", "O"}, "o"), {"1", "l"}, "l"))

\* phone.replace(/\D/g, "")
digitsOf(phone) == keepOnly(phone, Digit)

startsWith(s, w) == HasAt(s, 1, w)

\* cleanPhoneNumber without the branch for eleven digits
cleanPhoneNumberTenOnly(phone) ==
  LET digits == digitsOf(phone)
  IN  IF Len(digits) = 10
      THEN <<"+", "1", "-">> \o substring(digits, 0, 3) \o <<"-">>
             \o substring(digits, 3, 6) \o <<"-">> \o substring(digits, 6, Len(digits))
      ELSE <<"+">> \o digits

\* cleanPhoneNumber grouping any eleven digits, whatever the first one
cleanPhoneNumberAnyEleven(phone) ==
  LET digits == digitsOf(phone)
  IN  IF Len(digits) = 10
      THEN <<"+", "1", "-">> \o substring(digits, 0, 3) \o <<"-">>
             \o substring(digits, 3, 6) \o <<"-">> \o substring(digits, 6, Len(digits))
      ELSE IF Len(digits) = 11
           THEN <<"+">> \o substring(digits, 0, 1) \o <<"-">> \o substring(digits, 1, 4)
                  \o <<"-">> \o substring(digits, 4, 7) \o <<"-">>
                  \o substring(digits, 7, Len(digits))
           ELSE <<"+">> \o digits

cleanPhoneNumber(phone) ==
  LET digits == digitsOf(phone)
  IN  IF Len(digits) = 10
      THEN <<"+", "1", "-">> \o substring(digits, 0, 3) \o <<"-">>
             \o substring(digits, 3, 6) \o <<"-">> \o substring(digits, 6, Len(digits))
      ELSE IF Len(digits) = 11 /\ startsWith(digits, <<"1">>)
           THEN <<"+">> \o substring(digits, 0, 1) \o <<"-">> \o substring(digits, 1, 4)
                  \o <<"-">> \o substring(digits, 4, 7) \o <<"-">>
                  \o substring(digits, 7, Len(digits))
           ELSE <<"+">> \o digits

\* s.replace(/^www\./, "")
stripLeadingWww(s) ==
  IF HasAt(s, 1, <<"w", "w", "w", ".">>) THEN SubSeq(s, 5, Len(s)) ELSE s

cleanWebsite(website) == stripLeadingWww(toLowerCase(website))

\* name.replace(/[^a-zA-Z\s.-]/g, "").trim().replace(/\s+/g, " ")
cleanName(name) ==
  collapseWhitespace(trim(keepOnly(name, Letter \cup Whitespace \cup {".", "-"})))

\* s.replace(/,$/, "")
stripTrailingComma(s) ==
  IF Len(s) > 0 /\ s[Len(s)] = "," THEN SubSeq(s, 1, Len(s) - 1) ELSE s

\* cleanCompany, had it also removed a trailing full stop
cleanCompanyStripDot(company) ==
  LET c == stripTrailingComma(collapseWhitespace(trim(company)))
  IN  IF Len(c) > 0 /\ c[Len(c)] = "." THEN SubSeq(c, 1, Len(c) - 1) ELSE c

\* cleanCompany, had it removed what cleanName removes
cleanCompanyAsName(company) ==
  collapseWhitespace(trim(keepOnly(company, Letter \cup Whitespace \cup {".", "-"})))

cleanCompany(company) == stripTrailingComma(collapseWhitespace(trim(company)))

cleanJobTitle(title) == collapseWhitespace(trim(title))

(***************************************************************************)
(* Line heuristics (route.ts 667-746)                                      *)
(***************************************************************************)

\* position just past the run of non-whitespace characters starting at i
RECURSIVE WordEnd(_, _)
WordEnd(s, i) ==
  IF i <= Len(s) /\ s[i] \notin Whitespace THEN WordEnd(s, i + 1) ELSE i

\* s.split(/\s+/): the pieces between whitespace runs (an empty first or last
\* piece when s starts or ends with whitespace, one empty piece for "")
RECURSIVE SplitWsFrom(_, _)
SplitWsFrom(s, i) ==
  LET e == WordEnd(s, i)
  IN  IF e > Len(s) THEN <<SubSeq(s, i, Len(s))>>
      ELSE <<SubSeq(s, i, e - 1)>> \o SplitWsFrom(s, RunEnd(s, e, Whitespace))

splitWhitespace(s) == SplitWsFrom(s, 1)

\* /^[A-Z][a-z]+/.test(word)
titleCaseWord(word) == Len(word) >= 2 /\ word[1] \in Upper /\ word[2] \in Lower

\* the name test without the letter-casing rule
isLikelyNameAnyCase(text) ==
  LET nameWords == splitWhitespace(trim(text))
  IN  Len(nameWords) >= 2 /\ Len(nameWords) <= 4

isLikelyName(text) ==
  LET nameWords == splitWhitespace(trim(text))
  IN  /\ Len(nameWords) >= 2
      /\ Len(nameWords) <= 4
      /\ \A k \in 1..Len(nameWords) : titleCaseWord(nameWords[k])

companyKeywords ==
  << <<"I","n","c">>,
     <<"L","L","C">>,
     <<"C","o","r","p">>,
     <<"C","o","m","p","a","n","y">>,
     <<"L","t","d">>,
     <<"G","r","o","u","p">>,
     <<"S","o","l","u","t","i","o","n","s">>,
     <<"S","e","r","v","i","c","e","s">>,
     <<"T","e","c","h","n","o","l","o","g","i","e","s">> >>

\* /[A-Z]{2,}/.test(text)
hasUpperRun(s) == \E i \in 1..(Len(s) - 1) : s[i] \in Upper /\ s[i + 1] \in Upper

isLikelyCompany(text) ==
  \/ \E n \in 1..Len(companyKeywords) :
        includes(toLowerCase(text), toLowerCase(companyKeywords[n]))
  \/ includes(text, <<"&">>)
  \/ hasUpperRun(text)

titleKeywords ==
  << <<"C","E","O">>,
     <<"C","T","O">>,
     <<"C","F","O">>,
     <<"M","a","n","a","g","e","r">>,
     <<"D","i","r","e","c","t","o","r">>,
     <<"P","r","e","s","i","d","e","n","t">>,
     <<"V","i","c","e">>,
     <<"S","e","n","i","o","r">>,
     <<"L","e","a","d">>,
     <<"H","e","a","d">>,
     <<"C","h","i","e","f">>,
     <<"O","f","f","i","c","e","r">>,
     <<"A","g","e","n","t">> >>

isLikelyJobTitle(text) ==
  \E n \in 1..Len(titleKeywords) :
     includes(toLowerCase(text), toLowerCase(titleKeywords[n]))

(***************************************************************************)
(* cleanAndNormalizeData (route.ts 494-541) as a state machine: one action *)
(* per statement, one ClassifyLine step per iteration of the for loop.     *)
(***************************************************************************)

\* position of the next "\n" at or after i, Len(s) + 1 when there is none
RECURSIVE LineEnd(_, _)
LineEnd(s, i) ==
  IF i <= Len(s) /\ s[i] # "\n" THEN LineEnd(s, i + 1) ELSE i

\* text.split("\n")
RECURSIVE SplitLinesFrom(_, _)
SplitLinesFrom(s, i) ==
  LET e == LineEnd(s, i)
  IN  IF e > Len(s) THEN <<SubSeq(s, i, Len(s))>>
      ELSE <<SubSeq(s, i, e - 1)>> \o SplitLinesFrom(s, e + 1)

splitLines(s) == SplitLinesFrom(s, 1)

\* text.split("\n").filter((line) => line.trim().length > 0)
nonEmptyLines(s) == SelectSeq(splitLines(s), LAMBDA line : Len(trim(line)) > 0)

\* The LeadData object: a function whose domain is the set of fields that
\* have been assigned
emptyLead == [f \in {} |-> <<>>]

\* result[f] = v
setField(r, f, v) == [g \in (DOMAIN r) \cup {f} |-> IF g = f THEN v ELSE r[g]]

\* !result[f]: the field is undefined or the empty string
isFalsy(r, f) == f \notin DOMAIN r \/ r[f] = <<>>

\* the null test left out
isTruthyAlways(matches) == TRUE

\* if (matches): match() gives null (modelled as the empty sequence) or a
\* non-empty array, and only null is falsy
isTruthy(matches) == matches # <<>>

\* the guard without the website test
isCandidateLineNoWebsite(line) ==
  /\ ~isTruthy(match(line, "emailRegex"))
  /\ ~isTruthy(match(line, "phoneRegex"))
  /\ Len(line) > 2
  /\ Len(line) < 50

\* the three pattern tests and the length test that guard the classification
\* of a line (route.ts 523-529)
isCandidateLine(line) ==
  /\ ~isTruthy(match(line, "emailRegex"))
  /\ ~isTruthy(match(line, "phoneRegex"))
  /\ ~isTruthy(match(line, "websiteRegex"))
  /\ Len(line) > 2
  /\ Len(line) < 50

\* the chain without the test that the company slot is still empty
classifyLineRefill(r, line) ==
  IF isFalsy(r, "name") /\ isLikelyName(line) THEN "name"
  ELSE IF isLikelyCompany(line) THEN "company"
  ELSE IF isFalsy(r, "job_title") /\ isLikelyJobTitle(line) THEN "job_title"
  ELSE "none"

\* the chain with the job-title branch placed before the company branch
classifyLineTitleFirst(r, line) ==
  IF isFalsy(r, "name") /\ isLikelyName(line) THEN "name"
  ELSE IF isFalsy(r, "job_title") /\ isLikelyJobTitle(line) THEN "job_title"
  ELSE IF isFalsy(r, "company") /\ isLikelyCompany(line) THEN "company"
  ELSE "none"

\* the if / else if / else if chain of route.ts 530-536: the field the line
\* is assigned to, "none" when no branch is taken
classifyLine(r, line) ==
  IF isFalsy(r, "name") /\ isLikelyName(line) THEN "name"
  ELSE IF isFalsy(r, "company") /\ isLikelyCompany(line) THEN "company"
  ELSE IF isFalsy(r, "job_title") /\ isLikelyJobTitle(line) THEN "job_title"
  ELSE "none"

\* the normalizer each branch applies
cleanField(f, line) ==
  CASE f = "name"      -> cleanName(line)
    [] f = "company"   -> cleanCompany(line)
    [] f = "job_title" -> cleanJobTitle(line)

(***************************************************************************)
(* Inputs: every text of at most MaxLines lines drawn from LinePool,       *)
(* joined by "\n", and the scenario texts of the specification.            *)
(***************************************************************************)
MaxLines == 3

\* 'John Smith'
LineJohnSmith ==
  <<"J","o","h","n"," ","S","m","i","t","h">>

\* 'Senior Engineer'
LineSeniorEngineer ==
  <<"S","e","n","i","o","r"," ","E","n","g","i","n","e","e","r">>

\* 'Acme Technologies Inc.'
LineAcmeInc ==
  <<"A","c","m","e"," ","T","e","c","h","n","o","l","o","g","i","e","s"," ",
  "I","n","c",".">>

\* 'john.smith@acme.com'
LineEmailLine ==
  <<"j","o","h","n",".","s","m","i","t","h","@","a","c","m","e",".","c","o",
  "m">>

\* '(555) 123-4567'
LinePhoneLine ==
  <<"(","5","5","5",")"," ","1","2","3","-","4","5","6","7">>

\* 'Acme Corp www.acme.com'
LineCorpWww ==
  <<"A","c","m","e"," ","C","o","r","p"," ","w","w","w",".","a","c","m","e",".",
    "c","o","m">>

\* 'ACME CORP'
LineAcmeCorp ==
  <<"A","C","M","E"," ","C","O","R","P">>

\* '  '
LineBlankLine ==
  <<" "," ">>

\* 'CEO, Acme & Co,'
LineCeoAcme ==
  <<"C","E","O",","," ","A","c","m","e"," ","&"," ","C","o",",">>

\* 'Bob  Lee\r'
LineBobLee ==
  <<"B","o","b"," "," ","L","e","e","\r">>

LinePool ==
  {LineJohnSmith, LineSeniorEngineer, LineAcmeInc, LineEmailLine, LinePhoneLine,
   LineCorpWww, LineAcmeCorp, LineBlankLine, LineCeoAcme, LineBobLee}

\* 'John Smith\nSenior Engineer\nAcme Technologies Inc.\njohn.smith@acme.com\n(555) 123-4567\nwww.acme.com'
ScenarioCard ==
  <<"J","o","h","n"," ","S","m","i","t","h","\n","S","e","n","i","o","r"," ",
  "E","n","g","i","n","e","e","r","\n","A","c","m","e"," ","T","e","c","h","n",
  "o","l","o","g","i","e","s"," ","I","n","c",".","\n","j","o","h","n",".","s",
  "m","i","t","h","@","a","c","m","e",".","c","o","m","\n","(","5","5","5",")",
  " ","1","2","3","-","4","5","6","7","\n","w","w","w",".","a","c","m","e",".",
  "c","o","m">>

\* "contact@biz.io"
ScenarioEmailOnly ==
  <<"c","o","n","t","a","c","t","@","b","i","z",".","i","o">>

RECURSIVE JoinLines(_)
JoinLines(ls) ==
  IF Len(ls) = 0 THEN <<>>
  ELSE IF Len(ls) = 1 THEN ls[1]
       ELSE ls[1] \o <<"\n">> \o JoinLines(Tail(ls))

Texts ==
  {ScenarioCard, ScenarioEmailOnly}
    \cup {JoinLines(ls) : ls \in UNION {[1..n -> LinePool] : n \in 0..MaxLines}}

(***************************************************************************)
(* Inputs of the normalizers taken on their own: every string made of at   *)
(* most MaxPieces pieces, and the strings of the specification's scenarios *)
(***************************************************************************)
MaxPieces == 4

RECURSIVE Concat(_)
Concat(ps) == IF Len(ps) = 0 THEN <<>> ELSE ps[1] \o Concat(Tail(ps))

StringsOf(Pieces) ==
  {Concat(ps) : ps \in UNION {[1..n -> Pieces] : n \in 0..MaxPieces}}

PhonePieces ==
  {<<"1">>, <<"4","4">>, <<"5","5","5">>, <<"1","2","3","4","5","6","7">>, <<"-">>, <<"+">>}

\* "15551234567"
ScenarioPhoneUs ==
  <<"1","5","5","5","1","2","3","4","5","6","7">>

\* "442071234567"
ScenarioPhoneUk ==
  <<"4","4","2","0","7","1","2","3","4","5","6","7">>

PhoneInputs == {ScenarioPhoneUs, ScenarioPhoneUk} \cup StringsOf(PhonePieces)

EmailPieces ==
  {<<"J","0">>, <<"l","1">>, <<"O","o">>, <<"@">>, <<".","C","O">>, <<" ">>}

\* "J0HN@C0MPANY.COM"
ScenarioEmail ==
  <<"J","0","H","N","@","C","0","M","P","A","N","Y",".","C","O","M">>

EmailInputs == {ScenarioEmail} \cup StringsOf(EmailPieces)

WebsitePieces ==
  {<<"w","w","w",".">>, <<"W","W","W",".">>, <<"a","c","m","e">>,
   <<".","c","o","m">>, <<".","I","O">>, <<"-","x">>}

WebsiteInputs == StringsOf(WebsitePieces)

VARIABLES
  pc,              \* the statement cleanAndNormalizeData is at
  text,            \* its argument
  lines,           \* const lines
  result,          \* const result: LeadData
  emailMatches,    \* text.match(emailRegex)
  phoneMatches,    \* text.match(phoneRegex)
  websiteMatches,  \* text.match(websiteRegex)
  idx,             \* position of the for...of iterator in lines
  assigned,        \* history: <<field, index in lines>> of every assignment made by the loop
  fn,              \* the normalizer under test when one is called on its own
  arg,             \* its argument
  once,            \* fn(arg)
  twice,           \* fn(fn(arg))
  calls,           \* number of calls made so far
  env,             \* process.env: the three variables the clients read
  visionClient,    \* let visionClient of google-vision.ts
  supabase,        \* let supabase of google-vision.ts
  created,         \* history: number of client instances constructed, per kind
  returned,        \* history: the instances each getter has returned
  lastCall,        \* history: the getter called last and how the call ended
  hpc,             \* the statement POST /api/process-card is at
  image,           \* formData.get("image")
  fullText,        \* const { fullText }
  cleanedData,     \* const cleanedData
  lead,            \* const { data: lead }
  error,           \* const { error }
  response,        \* the response POST returned, null before it returns
  ocr,             \* history: what the text detection of this request gave
  engineCalls,     \* history: calls of cleanAndNormalizeData made by this request
  leads,           \* the rows of the leads table
  sync,            \* triggerCRMSync: state of the call made for each lead id
  trace,           \* history: the stages of POST /api/process-card in the order they ran
  inv,             \* concurrent calls of cleanAndNormalizeData: the locals of each
  cpc,             \* the statement POST /api/crm-sync is at
  crmBody,         \* the JSON body of its request
  bodyUsed,        \* request.bodyUsed: the body stream has been read
  crmError,        \* the error simulateCRMAPICall threw, null when it threw none
  crmId,           \* const crmId
  crmResponse,     \* what POST /api/crm-sync answered, null before it answers
  crmQuery,        \* the leadId parameter of the GET request, null when it has none
  gpc,             \* the statement GET /api/crm-sync is at
  statusResponse,  \* what GET /api/crm-sync answered, null before it answers
  file,            \* page.tsx: const [file, setFile]
  validationError, \* page.tsx: const [validationError, setValidationError]
  validating,      \* page.tsx: the calls of handleFileSelect waiting for validateImage
  steps,           \* page.tsx: const [steps, setSteps], the status of each step
  closureSteps,    \* page.tsx: the steps the running processCard closed over
  ppc,             \* page.tsx: the statement processCard is at
  processing,      \* page.tsx: const [processing, setProcessing]
  pageError,       \* page.tsx: const [error, setError]
  pageResult       \* page.tsx: const [result, setResult]

engineVars == <<pc, text, lines, result, emailMatches, phoneMatches, websiteMatches, idx, assigned>>

normVars == <<fn, arg, once, twice, calls>>

clientVars == <<env, visionClient, supabase, created, returned, lastCall>>

handlerVars == <<hpc, image, fullText, cleanedData, lead, error, response, ocr, engineCalls, leads, sync, trace>>

crmVars == <<cpc, crmBody, bodyUsed, crmError, crmId, crmResponse, crmQuery, gpc, statusResponse>>

pageVars == <<file, validationError, validating, steps, closureSteps, ppc, processing, pageError, pageResult>>

serverVars == <<clientVars, handlerVars, inv, crmVars, pageVars>>

vars == <<engineVars, normVars, serverVars>>

EngineIdle ==
  /\ pc = "idle"
  /\ text = <<>>
  /\ lines = <<>>
  /\ result = emptyLead
  /\ emailMatches = <<>>
  /\ phoneMatches = <<>>
  /\ websiteMatches = <<>>
  /\ idx = 1
  /\ assigned = <<>>

NormIdle ==
  /\ fn = "none"
  /\ arg = <<>>
  /\ once = <<>>
  /\ twice = <<>>
  /\ calls = 0

\* null: the value of a variable that holds no object
null == <<>>

\* no client constructed, no getter called, no environment variable set
ClientIdle ==
  /\ env = [GOOGLE_VISION_API_KEY |-> "undefined", SUPABASE_URL |-> "undefined",
            SUPABASE_API_KEY |-> "undefined"]
  /\ visionClient = null
  /\ supabase = null
  /\ created = [vision |-> 0, supabase |-> 0]
  /\ returned = [vision |-> {}, supabase |-> {}]
  /\ lastCall = [fn |-> "none", outcome |-> "none", fresh |-> FALSE]

\* no request received
HandlerIdle ==
  /\ hpc = "idle"
  /\ image = "none"
  /\ fullText = <<>>
  /\ cleanedData = emptyLead
  /\ lead = null
  /\ error = "null"
  /\ response = null
  /\ ocr = "none"
  /\ engineCalls = 0
  /\ leads = <<>>
  /\ sync = <<>>
  /\ trace = <<>>

\* no request to /api/crm-sync received
CrmIdle ==
  /\ cpc = "idle"
  /\ crmBody = null
  /\ bodyUsed = FALSE
  /\ crmError = null
  /\ crmId = null
  /\ crmResponse = null
  /\ crmQuery = null
  /\ gpc = "idle"
  /\ statusResponse = null

\* the upload page is not mounted
PageIdle ==
  /\ file = null
  /\ validationError = null
  /\ validating = {}
  /\ steps = <<>>
  /\ closureSteps = <<>>
  /\ ppc = "idle"
  /\ processing = FALSE
  /\ pageError = null
  /\ pageResult = null

\* nothing outside cleanAndNormalizeData and the normalizers is running
ServerIdle == ClientIdle /\ HandlerIdle /\ inv = <<>> /\ CrmIdle /\ PageIdle

Init ==
  /\ pc = "start"
  /\ text \in Texts
  /\ lines = <<>>
  /\ result = emptyLead
  /\ emailMatches = <<>>
  /\ phoneMatches = <<>>
  /\ websiteMatches = <<>>
  /\ idx = 1
  /\ assigned = <<>>
  /\ NormIdle
  /\ ServerIdle

\* route.ts 495-496
Start ==
  /\ pc = "start"
  /\ lines' = nonEmptyLines(text)
  /\ result' = emptyLead
  /\ pc' = "email"
  /\ UNCHANGED <<text, emailMatches, phoneMatches, websiteMatches, idx, assigned, normVars, serverVars>>

\* the normalizer applied to the first match of each pattern
cleanMatch(field, m) ==
  CASE field = "email"   -> cleanEmail(m)
    [] field = "phone"   -> cleanPhoneNumber(m)
    [] field = "website" -> cleanWebsite(m)

\* the last match taken in place of the first
AfterMatchLast(matches, field, next) ==
  IF isTruthy(matches)
  THEN IF matches = <<>>
       THEN pc' = "thrown" /\ UNCHANGED result
       ELSE pc' = next /\ result' = setField(result, field, cleanMatch(field, matches[Len(matches)]))
  ELSE pc' = next /\ UNCHANGED result

\* if (matches) { result[field] = clean(matches[0]) }: the next statement is
\* reached with the field set or untouched; reading [0] of null throws
AfterMatch(matches, field, next) ==
  IF isTruthy(matches)
  THEN IF matches = <<>>
       THEN pc' = "thrown" /\ UNCHANGED result
       ELSE pc' = next /\ result' = setField(result, field, cleanMatch(field, matches[1]))
  ELSE pc' = next /\ UNCHANGED result

\* route.ts 499-503
ExtractEmail ==
  /\ pc = "email"
  /\ emailMatches' = match(text, "emailRegex")
  /\ AfterMatch(emailMatches', "email", "phone")
  /\ UNCHANGED <<text, lines, phoneMatches, websiteMatches, idx, assigned, normVars, serverVars>>

\* route.ts 506-510
ExtractPhone ==
  /\ pc = "phone"
  /\ phoneMatches' = match(text, "phoneRegex")
  /\ AfterMatch(phoneMatches', "phone", "website")
  /\ UNCHANGED <<text, lines, emailMatches, websiteMatches, idx, assigned, normVars, serverVars>>

\* route.ts 513-518
ExtractWebsite ==
  /\ pc = "website"
  /\ websiteMatches' = match(text, "websiteRegex")
  /\ AfterMatch(websiteMatches', "website", "loop")
  /\ UNCHANGED <<text, lines, emailMatches, phoneMatches, idx, assigned, normVars, serverVars>>

\* the body of the loop for one line: the field it is assigned to, "none"
\* when the guard of route.ts 523-529 fails or no branch is taken
lineField(r, line) ==
  IF isCandidateLine(line) THEN classifyLine(r, line) ELSE "none"

\* route.ts 522-538: one iteration of for (const line of lines)
ClassifyLine ==
  /\ pc = "loop"
  /\ idx <= Len(lines)
  /\ \E f \in {lineField(result, lines[idx])} :
        IF f = "none"
        THEN UNCHANGED <<result, assigned>>
        ELSE /\ result' = setField(result, f, cleanField(f, lines[idx]))
             /\ assigned' = Append(assigned, <<f, idx>>)
  /\ idx' = idx + 1
  /\ UNCHANGED <<pc, text, lines, emailMatches, phoneMatches, websiteMatches, normVars, serverVars>>

\* route.ts 540: return result
Return ==
  /\ pc = "loop"
  /\ idx > Len(lines)
  /\ pc' = "done"
  /\ UNCHANGED <<text, lines, result, emailMatches, phoneMatches, websiteMatches, idx, assigned, normVars, serverVars>>

Next ==
  \/ Start
  \/ ExtractEmail
  \/ ExtractPhone
  \/ ExtractWebsite
  \/ ClassifyLine
  \/ Return

Spec == Init /\ [][Next]_vars

(***************************************************************************)
(* The normalizers called on their own, once and then again on their own   *)
(* result.                                                                 *)
(***************************************************************************)
NormInit ==
  /\ EngineIdle
  /\ ServerIdle
  /\ \/ fn = "cleanPhoneNumber" /\ arg \in PhoneInputs
     \/ fn = "cleanEmail" /\ arg \in EmailInputs
     \/ fn = "cleanWebsite" /\ arg \in WebsiteInputs
  /\ once = <<>>
  /\ twice = <<>>
  /\ calls = 0

\* the value the next call is made on
NextArg == IF calls = 0 THEN arg ELSE once

Returned(v) ==
  /\ IF calls = 0 THEN once' = v /\ UNCHANGED twice
                  ELSE twice' = v /\ UNCHANGED once
  /\ calls' = calls + 1
  /\ UNCHANGED <<fn, arg, engineVars, serverVars>>

CallCleanPhoneNumber ==
  /\ fn = "cleanPhoneNumber"
  /\ calls < 2
  /\ Returned(cleanPhoneNumber(NextArg))

CallCleanEmail ==
  /\ fn = "cleanEmail"
  /\ calls < 2
  /\ Returned(cleanEmail(NextArg))

CallCleanWebsite ==
  /\ fn = "cleanWebsite"
  /\ calls < 2
  /\ Returned(cleanWebsite(NextArg))

NormNext ==
  \/ CallCleanPhoneNumber
  \/ CallCleanEmail
  \/ CallCleanWebsite

NormSpec == NormInit /\ [][NormNext]_vars

(***************************************************************************)
(* Properties                                                              *)
(***************************************************************************)

\* the three fields the loop fills, in the order the chain tests them
slotOrder == <<"name", "company", "job_title">>

passesTest(f, line) ==
  CASE f = "name"      -> isLikelyName(line)
    [] f = "company"   -> isLikelyCompany(line)
    [] f = "job_title" -> isLikelyJobTitle(line)

matchesAPattern(line) ==
  \/ match(line, "emailRegex") # <<>>
  \/ match(line, "phoneRegex") # <<>>
  \/ match(line, "websiteRegex") # <<>>

\* C1 as stated: for the six-line card of the specification the engine
\* returns name "John Smith", job_title "Senior Engineer", company
\* "Acme Technologies Inc" (no full stop), email "john.smith@acme.com",
\* phone "+1-555-123-4567" and website "acme.com".
C1_CardAsStated ==
  (pc = "done" /\ text = ScenarioCard) =>
     result = [name      |-> <<"J","o","h","n"," ","S","m","i","t","h">>,
               job_title |-> <<"S","e","n","i","o","r"," ","E","n","g","i","n","e","e","r">>,
               company   |-> <<"A","c","m","e"," ","T","e","c","h","n","o","l","o","g","i","e","s"," ","I","n","c">>,
               email     |-> <<"j","o","h","n",".","s","m","i","t","h","@","a","c","m","e",".","c","o","m">>,
               phone     |-> <<"+","1","-","5","5","5","-","1","2","3","-","4","5","6","7">>,
               website   |-> <<"a","c","m","e",".","c","o","m">>]

\* C1 amended: for the six-line card the engine returns exactly these six
\* fields, the company keeping its trailing full stop ("Acme Technologies
\* Inc."): cleanCompany removes a trailing comma only.
C1_CardKeepsFullStop ==
  (pc = "done" /\ text = ScenarioCard) =>
     result = [name      |-> <<"J","o","h","n"," ","S","m","i","t","h">>,
               job_title |-> <<"S","e","n","i","o","r"," ","E","n","g","i","n","e","e","r">>,
               company   |-> <<"A","c","m","e"," ","T","e","c","h","n","o","l","o","g","i","e","s"," ","I","n","c",".">>,
               email     |-> <<"j","o","h","n",".","s","m","i","t","h","@","a","c","m","e",".","c","o","m">>,
               phone     |-> <<"+","1","-","5","5","5","-","1","2","3","-","4","5","6","7">>,
               website   |-> <<"a","c","m","e",".","c","o","m">>]

C1_Witness == pc = "done" /\ text = ScenarioCard /\ Len(assigned) = 3

\* C2 as stated: for the text "contact@biz.io" the returned record has the
\* email "contact@biz.io" and no other field.
C2_EmailOnlyAsStated ==
  (pc = "done" /\ text = ScenarioEmailOnly) =>
     result = [email |-> <<"c","o","n","t","a","c","t","@","b","i","z",".","i","o">>]

\* C2 amended: for the text "contact@biz.io" the returned record has the
\* email "contact@biz.io" and the website "biz.io" (the bare-domain
\* alternative of the website pattern matches the domain of the address);
\* name, phone, company and job_title are absent.
C2_EmailAndItsDomain ==
  (pc = "done" /\ text = ScenarioEmailOnly) =>
     result = [email   |-> <<"c","o","n","t","a","c","t","@","b","i","z",".","i","o">>,
               website |-> <<"b","i","z",".","i","o">>]

C2_Witness == pc = "done" /\ text = ScenarioEmailOnly /\ "website" \in DOMAIN result

\* C3: a line in which the email, phone or website pattern matches is never
\* the source of name, company or job_title.
C3_MatchedLinesNeverClassified ==
  \A k \in 1..Len(assigned) : ~matchesAPattern(lines[assigned[k][2]])

\* a pattern line stands before a classified line and is itself unclassified
C3_Witness ==
  /\ pc = "done"
  /\ \E i \in 1..Len(lines) :
        /\ matchesAPattern(lines[i])
        /\ passesTest("company", lines[i])
        /\ \A k \in 1..Len(assigned) : assigned[k][2] # i
        /\ \E k \in 1..Len(assigned) : assigned[k][2] > i

\* C4: each of name, company and job_title is assigned from at most one
\* line, and no line is the source of two fields.
C4_OneLinePerSlot ==
  \A j, k \in 1..Len(assigned) :
     j # k => (assigned[j][1] # assigned[k][1] /\ assigned[j][2] # assigned[k][2])

\* a second company-like candidate line was left unassigned
C4_Witness ==
  /\ pc = "done"
  /\ \E k \in 1..Len(assigned), i \in 1..Len(lines) :
        /\ assigned[k][1] = "company"
        /\ i > assigned[k][2]
        /\ isCandidateLine(lines[i])
        /\ passesTest("company", lines[i])
        /\ \A j \in 1..Len(assigned) : assigned[j][2] # i

\* the first field, in the order name, company, job_title, that has never
\* been assigned and whose test the line passes; "none" when there is none
\* or the line is not eligible
firstOpenSlot(r, line) ==
  LET open == {n \in 1..3 : slotOrder[n] \notin DOMAIN r /\ passesTest(slotOrder[n], line)}
  IN  IF matchesAPattern(line) \/ Len(line) <= 2 \/ Len(line) >= 50 \/ open = {}
      THEN "none"
      ELSE slotOrder[CHOOSE n \in open : \A m \in open : n <= m]

\* C5: every iteration of the loop assigns the line to the first of name,
\* company, job_title whose slot is still empty and whose test it passes,
\* storing its normalized value, and leaves every field already present
\* unchanged; a line that is not eligible or passes no open test changes
\* nothing.  So at the return each slot holds the normalized value of its
\* source line, and every earlier eligible line passing the same test had
\* been taken by a slot tested before it.
C5_FirstOpenSlotWins ==
  [][(pc = "loop" /\ idx <= Len(lines)) =>
       /\ \A f \in DOMAIN result : f \in DOMAIN result' /\ result'[f] = result[f]
       /\ LET f == firstOpenSlot(result, lines[idx])
          IN  IF f = "none"
              THEN result' = result
              ELSE /\ DOMAIN result' = (DOMAIN result) \cup {f}
                   /\ result'[f] = cleanField(f, lines[idx])]_vars
  /\ [](pc = "done" =>
         \A k \in 1..Len(assigned) :
            LET f == assigned[k][1]
                i == assigned[k][2]
            IN  /\ result[f] = cleanField(f, lines[i])
                /\ \A j \in 1..(i - 1) :
                      (~matchesAPattern(lines[j]) /\ Len(lines[j]) > 2
                         /\ Len(lines[j]) < 50 /\ passesTest(f, lines[j]))
                      => \E h \in 1..Len(assigned) : assigned[h][2] = j)

\* a line that passes the company test and the job-title test went to company
\* and a later title line filled job_title
C5_Witness ==
  /\ pc = "done"
  /\ Len(assigned) = 3
  /\ \E k \in 1..3 :
        /\ assigned[k][1] = "company"
        /\ passesTest("job_title", lines[assigned[k][2]])

\* the number of statements still to run, at most
Variant ==
  CASE pc = "start"   -> Len(text) + 6
    [] pc = "email"   -> Len(lines) + 5
    [] pc = "phone"   -> Len(lines) + 4
    [] pc = "website" -> Len(lines) + 3
    [] pc = "loop"    -> Len(lines) + 2 - idx
    [] OTHER          -> 0

\* C6: for every input text the call ends by returning a record: it never
\* throws, it is never stuck before the return (at every statement but the
\* return the next one can run), and every statement executed lowers a
\* natural-number bound on the statements still to run, so it cannot run
\* forever.
C6_AlwaysReturns ==
  /\ [](pc \in {"start", "email", "phone", "website", "loop", "done"})
  /\ [](pc = "loop" => idx \in 1..(Len(lines) + 1))
  /\ [](Variant \in Nat)
  /\ [][Variant' < Variant]_vars

\* a text of white space only returned the record with no field
C6_Witness ==
  /\ pc = "done"
  /\ Len(text) > 0
  /\ lines = <<>>
  /\ result = emptyLead

\* C7 as stated: for every string x that the website pattern matches,
\* cleanWebsite(cleanWebsite(x)) = cleanWebsite(x).
C7_WebsiteIdempotent ==
  (fn = "cleanWebsite" /\ calls = 2 /\ match(arg, "websiteRegex") = <<arg>>)
     => twice = once

\* C8: cleanPhoneNumber and cleanEmail are idempotent: applied to their own
\* result they return it unchanged, for every input string.
C8_PhoneEmailIdempotent ==
  (fn \in {"cleanPhoneNumber", "cleanEmail"} /\ calls = 2) => twice = once

\* ten digits were regrouped by the first call and left alone by the second
C8_Witness ==
  /\ fn = "cleanPhoneNumber"
  /\ calls = 2
  /\ Len(SelectSeq(arg, LAMBDA c : c \in Digit)) = 10
  /\ once # arg
  /\ twice = once

\* +1-DDD-DDD-DDDD built from ten digits
usFormat(d) ==
  <<"+", "1", "-">> \o SubSeq(d, 1, 3) \o <<"-">> \o SubSeq(d, 4, 6) \o <<"-">> \o SubSeq(d, 7, 10)

\* C9: with d the digits of the input, cleanPhoneNumber returns
\* +1-DDD-DDD-DDDD built from d when d has exactly 10 digits, the same built
\* from the last 10 digits when d has exactly 11 digits and starts with 1,
\* and + followed by d in every other case; "15551234567" gives
\* "+1-555-123-4567" and "442071234567" gives "+442071234567".
C9_PhoneFormat ==
  (fn = "cleanPhoneNumber" /\ calls >= 1) =>
     LET d == SelectSeq(arg, LAMBDA c : c \in Digit)
     IN  /\ once = (IF Len(d) = 10 THEN usFormat(d)
                    ELSE IF Len(d) = 11 /\ d[1] = "1" THEN usFormat(Tail(d))
                    ELSE <<"+">> \o d)
         /\ arg = ScenarioPhoneUs => once = <<"+","1","-","5","5","5","-","1","2","3","-","4","5","6","7">>
         /\ arg = ScenarioPhoneUk => once = <<"+","4","4","2","0","7","1","2","3","4","5","6","7">>

\* eleven digits that do not start with 1 came back ungrouped
C9_Witness ==
  /\ fn = "cleanPhoneNumber"
  /\ calls >= 1
  /\ Len(SelectSeq(arg, LAMBDA c : c \in Digit)) = 11
  /\ arg[1] = "4"
  /\ once = <<"+">> \o SelectSeq(arg, LAMBDA c : c \in Digit)

MaxEdgeLines == 2

\* "AB"
LineAb ==
  <<"A","B">>

\* "  AB"
LinePaddedAb ==
  <<" "," ","A","B">>

\* "CEO ACME"
LineCeoAcmeUpper ==
  <<"C","E","O"," ","A","C","M","E">>

\* "sales manager"
LineSalesManager ==
  <<"s","a","l","e","s"," ","m","a","n","a","g","e","r">>

\* "john smith"
LineJohnLower ==
  <<"j","o","h","n"," ","s","m","i","t","h">>

\* "LLC x x x x x x x x x x x x x x x x x x x x x x x"
LineLlc49 ==
  <<"L","L","C"," ","x"," ","x"," ","x"," ","x"," ","x"," ","x"," ","x"," ",
    "x"," ","x"," ","x"," ","x"," ","x"," ","x"," ","x"," ","x"," ","x"," ",
    "x"," ","x"," ","x"," ","x"," ","x"," ","x"," ","x">>

\* "LLC x x x x x x x x x x x x x x x x x x x x x x x "
LineLlc49Space ==
  <<"L","L","C"," ","x"," ","x"," ","x"," ","x"," ","x"," ","x"," ","x"," ",
    "x"," ","x"," ","x"," ","x"," ","x"," ","x"," ","x"," ","x"," ","x"," ",
    "x"," ","x"," ","x"," ","x"," ","x"," ","x"," ","x"," ">>

\* "LLC x x x x x x x x x x x x x x x x x x x x x x xx"
LineLlc50 ==
  <<"L","L","C"," ","x"," ","x"," ","x"," ","x"," ","x"," ","x"," ","x"," ",
    "x"," ","x"," ","x"," ","x"," ","x"," ","x"," ","x"," ","x"," ","x"," ",
    "x"," ","x"," ","x"," ","x"," ","x"," ","x"," ","x","x">>

EdgePool ==
  {LineAcmeCorp, LineCeoAcmeUpper, LineSalesManager, LineJohnSmith, LineJohnLower,
   LineAb, LinePaddedAb, LineLlc49, LineLlc49Space, LineLlc50}

EdgeTexts ==
  {JoinLines(ls) : ls \in UNION {[1..n -> EdgePool] : n \in 0..MaxEdgeLines}}

LineInit ==
  /\ pc = "start"
  /\ text \in EdgeTexts
  /\ lines = <<>>
  /\ result = emptyLead
  /\ emailMatches = <<>>
  /\ phoneMatches = <<>>
  /\ websiteMatches = <<>>
  /\ idx = 1
  /\ assigned = <<>>
  /\ NormIdle
  /\ ServerIdle

LineSpec == LineInit /\ [][Next]_vars

\* some word of the line is not an uppercase letter followed by a lowercase
\* letter (the letter-casing rule of the name test)
notTitleCase(line) ==
  LET words == splitWhitespace(trim(line))
  IN  \E k \in 1..Len(words) : ~titleCaseWord(words[k])

\* the line matches none of the three patterns and is more than 2 and less
\* than 50 characters long
eligible(line) == ~matchesAPattern(line) /\ Len(line) > 2 /\ Len(line) < 50

\* company was assigned from a line before line i
companyTakenBefore(i) ==
  \E k \in 1..Len(assigned) : assigned[k][1] = "company" /\ assigned[k][2] < i

\* C11: a line with a word that is not Title-Case is never the source of
\* name; when such a line is eligible and passes the company test (keyword,
\* "&" or a run of two uppercase letters) while company is still empty, it
\* is the source of company, also when it holds a job-title keyword.
C11_UpperCaseLineIsCompany ==
  /\ \A k \in 1..Len(assigned) :
        assigned[k][1] = "name" => ~notTitleCase(lines[assigned[k][2]])
  /\ \A i \in 1..(idx - 1) :
        (/\ notTitleCase(lines[i])
         /\ eligible(lines[i])
         /\ passesTest("company", lines[i])
         /\ ~companyTakenBefore(i))
        => \E k \in 1..Len(assigned) : assigned[k] = <<"company", i>>

\* an upper-case line with a job-title keyword became the company, and
\* neither name nor job_title was taken from it
C11_Witness ==
  /\ pc = "done"
  /\ \E k \in 1..Len(assigned) :
        /\ assigned[k][1] = "company"
        /\ notTitleCase(lines[assigned[k][2]])
        /\ passesTest("job_title", lines[assigned[k][2]])
        /\ Len(splitWhitespace(lines[assigned[k][2]])) = 2
  /\ "name" \notin DOMAIN result
  /\ "job_title" \notin DOMAIN result

(***************************************************************************)
(* cleanAndNormalizeData on texts with several matches of a pattern and    *)
(* with domain names of several top-level labels                           *)
(***************************************************************************)
MaxMatchLines == 2

\* "A1@B.CO 555 123 4567"
LineMailPhoneUs ==
  <<"A","1","@","B",".","C","O"," ","5","5","5"," ","1","2","3"," ","4","5",
    "6","7">>

\* "x@y.org +44 20 7123 4567"
LineMailPhoneUk ==
  <<"x","@","y",".","o","r","g"," ","+","4","4"," ","2","0"," ","7","1","2",
    "3"," ","4","5","6","7">>

\* "www.shop.net"
LineWwwShop ==
  <<"w","w","w",".","s","h","o","p",".","n","e","t">>

\* "acme.dev"
LineAcmeDev ==
  <<"a","c","m","e",".","d","e","v">>

\* "acme.company"
LineAcmeCompany ==
  <<"a","c","m","e",".","c","o","m","p","a","n","y">>

\* "Shop.IO"
LineShopIo ==
  <<"S","h","o","p",".","I","O">>

\* "Acme"
LineAcme ==
  <<"A","c","m","e">>

\* "x.com.au"
LineComAu ==
  <<"x",".","c","o","m",".","a","u">>

MatchPool ==
  {LineMailPhoneUs, LineMailPhoneUk, LineWwwShop, LineAcmeDev, LineAcmeCompany,
   LineShopIo, LineAcme, LineComAu}

MatchTexts ==
  {JoinLines(ls) : ls \in UNION {[1..n -> MatchPool] : n \in 0..MaxMatchLines}}

MatchInit ==
  /\ pc = "start"
  /\ text \in MatchTexts
  /\ lines = <<>>
  /\ result = emptyLead
  /\ emailMatches = <<>>
  /\ phoneMatches = <<>>
  /\ websiteMatches = <<>>
  /\ idx = 1
  /\ assigned = <<>>
  /\ NormIdle
  /\ ServerIdle

MatchSpec == MatchInit /\ [][Next]_vars

\* the pattern of each extracted field
patternOf ==
  [email |-> "emailRegex", phone |-> "phoneRegex", website |-> "websiteRegex"]

\* the positions of s at which the pattern matches
matchStarts(regex, s) == {i \in 1..Len(s) : MatchAt(regex, s, i) # 0}

\* the leftmost of them
earliestStart(regex, s) ==
  CHOOSE i \in matchStarts(regex, s) : \A j \in matchStarts(regex, s) : i <= j

\* C12: at the return, each of email, phone and website is present exactly
\* when its pattern matches somewhere in the text, and then holds the
\* normalized form of the match that starts leftmost; the text that follows
\* that match has no influence (the same text cut after the match gives the
\* same value).
C12_FirstMatchWins ==
  pc = "done" =>
    \A f \in {"email", "phone", "website"} :
       /\ f \in DOMAIN result <=> matchStarts(patternOf[f], text) # {}
       /\ matchStarts(patternOf[f], text) # {} =>
            LET b == earliestStart(patternOf[f], text)
                e == MatchAt(patternOf[f], text, b)
            IN  /\ result[f] = cleanMatch(f, SubSeq(text, b, e - 1))
                /\ match(SubSeq(text, 1, e - 1), patternOf[f]) = <<SubSeq(text, b, e - 1)>>

\* two addresses, two phone numbers and two domains with different
\* normalized forms were in the text, and the first of each was returned
C12_Witness ==
  /\ pc = "done"
  /\ Len(emailMatches) >= 2
  /\ Len(phoneMatches) >= 2
  /\ Len(websiteMatches) >= 2
  /\ result["email"] = cleanEmail(emailMatches[1])
  /\ result["email"] # cleanEmail(emailMatches[2])
  /\ result["phone"] = cleanPhoneNumber(phoneMatches[1])
  /\ result["phone"] # cleanPhoneNumber(phoneMatches[2])
  /\ result["website"] = cleanWebsite(websiteMatches[1])
  /\ result["website"] # cleanWebsite(websiteMatches[2])

\* C13 as stated: a line that matches none of the three patterns is
\* considered for name, company and job_title (it is assigned when it passes
\* a test whose slot is empty) if and only if its length after trim() is
\* more than 2 and less than 50.
C13_TrimmedLengthDecides ==
  [][(pc = "loop" /\ idx <= Len(lines) /\ ~matchesAPattern(lines[idx])) =>
       ((assigned' # assigned) <=>
          (/\ Len(trim(lines[idx])) > 2
           /\ Len(trim(lines[idx])) < 50
           /\ classifyLine(result, lines[idx]) # "none"))]_vars

\* the text holds "www." somewhere, in any letter case
containsWww(s) == \E i \in 1..Len(s) : HasAtNoCase(s, i, <<"w","w","w",".">>)

\* the domain tokens of the text: its maximal runs of letters, digits, "."
\* and "-"
domainTokens(s) ==
  {SubSeq(s, i, RunEnd(s, i, DomainChar) - 1) :
     i \in {j \in 1..Len(s) : s[j] \in DomainChar /\ (j = 1 \/ s[j - 1] \notin DomainChar)}}

\* the label after the last "." of a token that has one
topLevelLabel(t) ==
  LET dot == CHOOSE k \in 1..Len(t) : t[k] = "." /\ \A m \in (k + 1)..Len(t) : t[m] # "."
  IN  SubSeq(t, dot + 1, Len(t))

\* C14 as stated: when the text holds no "www.", a website is returned only
\* if some domain token of the text has a top-level label that is exactly
\* one of com, net, org, io, co, uk, ca, de (in any letter case), and the
\* website is then that whole token, normalized.
C14_WebsiteOnlyFromAllowedLabel ==
  (pc = "done" /\ ~containsWww(text) /\ "website" \in DOMAIN result) =>
     \E t \in domainTokens(text) :
        /\ \E k \in 1..Len(t) : t[k] = "."
        /\ \E n \in 1..Len(tldAllowList) : toLowerCase(topLevelLabel(t)) = tldAllowList[n]
        /\ result["website"] = cleanWebsite(t)

(***************************************************************************)
(* The client singletons of google-vision.ts: getVisionClient (23-37) and  *)
(* getSupabaseClient (169-183).  An instance is the one-element sequence of *)
(* its construction number; process.env is fixed when the process starts.  *)
(***************************************************************************)

\* what an environment variable can hold: not set, the empty string, a value
EnvValues == {"undefined", "", "set"}

\* the test made without looking at the value
isMissingNever(v) == FALSE

\* !apiKey, !supabaseUrl, !supabaseKey: undefined and "" are falsy
isMissing(v) == v \in {"undefined", ""}

\* a client constructed at every call
needsClientAlways(client) == TRUE

\* if (visionClient === null), if (supabase === null)
needsClient(client) == client = null

\* getVisionClient throws: no client yet and no API key
getVisionClientThrows ==
  needsClient(visionClient) /\ isMissing(env.GOOGLE_VISION_API_KEY)

\* getVisionClient() (google-vision.ts 23-37)
getVisionClient ==
  /\ IF needsClient(visionClient)
     THEN IF isMissing(env.GOOGLE_VISION_API_KEY)
          THEN /\ lastCall' = [fn |-> "getVisionClient", outcome |-> "throws", fresh |-> FALSE]
               /\ UNCHANGED <<visionClient, created, returned>>
          ELSE /\ visionClient' = <<created.vision + 1>>
               /\ created' = [created EXCEPT !.vision = @ + 1]
               /\ returned' = [returned EXCEPT !.vision = @ \cup {visionClient'}]
               /\ lastCall' = [fn |-> "getVisionClient", outcome |-> "returns", fresh |-> TRUE]
     ELSE /\ returned' = [returned EXCEPT !.vision = @ \cup {visionClient}]
          /\ lastCall' = [fn |-> "getVisionClient", outcome |-> "returns", fresh |-> FALSE]
          /\ UNCHANGED <<visionClient, created>>
  /\ UNCHANGED <<env, supabase>>

\* getSupabaseClient throws: no client yet and the URL or the key is missing
getSupabaseClientThrows ==
  needsClient(supabase) /\ (isMissing(env.SUPABASE_URL) \/ isMissing(env.SUPABASE_API_KEY))

\* getSupabaseClient() (google-vision.ts 169-183)
getSupabaseClient ==
  /\ IF needsClient(supabase)
     THEN IF isMissing(env.SUPABASE_URL) \/ isMissing(env.SUPABASE_API_KEY)
          THEN /\ lastCall' = [fn |-> "getSupabaseClient", outcome |-> "throws", fresh |-> FALSE]
               /\ UNCHANGED <<supabase, created, returned>>
          ELSE /\ supabase' = <<created.supabase + 1>>
               /\ created' = [created EXCEPT !.supabase = @ + 1]
               /\ returned' = [returned EXCEPT !.supabase = @ \cup {supabase'}]
               /\ lastCall' = [fn |-> "getSupabaseClient", outcome |-> "returns", fresh |-> TRUE]
     ELSE /\ returned' = [returned EXCEPT !.supabase = @ \cup {supabase}]
          /\ lastCall' = [fn |-> "getSupabaseClient", outcome |-> "returns", fresh |-> FALSE]
          /\ UNCHANGED <<supabase, created>>
  /\ UNCHANGED <<env, visionClient>>

\* a process that has just started, with any setting of the three variables
ClientInit ==
  /\ EngineIdle
  /\ NormIdle
  /\ CrmIdle
  /\ PageIdle
  /\ HandlerIdle
  /\ inv = <<>>
  /\ env \in [{"GOOGLE_VISION_API_KEY", "SUPABASE_URL", "SUPABASE_API_KEY"} -> EnvValues]
  /\ visionClient = null
  /\ supabase = null
  /\ created = [vision |-> 0, supabase |-> 0]
  /\ returned = [vision |-> {}, supabase |-> {}]
  /\ lastCall = [fn |-> "none", outcome |-> "none", fresh |-> FALSE]

CallGetVisionClient ==
  /\ getVisionClient
  /\ UNCHANGED <<engineVars, normVars, crmVars, pageVars, handlerVars, inv>>

CallGetSupabaseClient ==
  /\ getSupabaseClient
  /\ UNCHANGED <<engineVars, normVars, crmVars, pageVars, handlerVars, inv>>

ClientNext ==
  \/ CallGetVisionClient
  \/ CallGetSupabaseClient

ClientSpec == ClientInit /\ [][ClientNext]_vars

\* C20: each getter has constructed at most one instance and every call
\* that returned has returned that instance; a call made while a required
\* environment variable is missing has thrown, and no instance of that
\* client has been constructed or stored.
C20_OneClientPerProcess ==
  /\ created.vision <= 1
  /\ created.supabase <= 1
  /\ Cardinality(returned.vision) <= 1
  /\ Cardinality(returned.supabase) <= 1
  /\ visionClient # null => returned.vision = {visionClient}
  /\ supabase # null => returned.supabase = {supabase}
  /\ (lastCall.fn = "getVisionClient" /\ env.GOOGLE_VISION_API_KEY \in {"undefined", ""}) =>
        (lastCall.outcome = "throws" /\ visionClient = null /\ created.vision = 0)
  /\ (lastCall.fn = "getSupabaseClient"
        /\ (env.SUPABASE_URL \in {"undefined", ""} \/ env.SUPABASE_API_KEY \in {"undefined", ""})) =>
        (lastCall.outcome = "throws" /\ supabase = null /\ created.supabase = 0)

\* both clients exist and a later call returned the stored instance
C20_Witness ==
  /\ created = [vision |-> 1, supabase |-> 1]
  /\ lastCall.outcome = "returns"
  /\ ~lastCall.fresh
  /\ returned = [vision |-> {visionClient}, supabase |-> {supabase}]

(***************************************************************************)
(* Several calls of cleanAndNormalizeData in one process, their statements *)
(* interleaved in every order.  inv[i] holds the locals of call i; each    *)
(* call evaluates the three pattern literals and the object literal {}     *)
(* itself, so the RegExp objects and the LeadData object are its own.      *)
(***************************************************************************)

\* calls that run besides the two calls that are compared
MaxOthers == 1

\* 'John Smith\nCEO ACME'
TextNameCompany == JoinLines(<<LineJohnSmith, LineCeoAcmeUpper>>)

CallTexts == {LineMailPhoneUs, LineAcmeCorp, TextNameCompany}

\* the locals of a call at its entry; lastIndex is the match position each
\* of its RegExp objects keeps
enter(t) ==
  [pc |-> "start", text |-> t, lines |-> <<>>, result |-> emptyLead, idx |-> 1,
   lastIndex |-> [emailRegex |-> 0, phoneRegex |-> 0, websiteRegex |-> 0]]

\* const xMatches = text.match(xRegex); if (xMatches) { result.x = ... }.
\* String.prototype.match with a g-flagged pattern starts at the beginning
\* of the string whatever lastIndex is, and leaves lastIndex at 0.
extract(st, field, next) ==
  LET matches == match(st.text, patternOf[field])
  IN  [st EXCEPT !.pc = next,
                 !.result = IF isTruthy(matches)
                            THEN setField(@, field, cleanMatch(field, matches[1]))
                            ELSE @,
                 !.lastIndex[patternOf[field]] = 0]

\* the next statement of a call (route.ts 495-540)
stepOf(st) ==
  CASE st.pc = "start" ->
         [st EXCEPT !.lines = nonEmptyLines(st.text), !.result = emptyLead, !.pc = "email"]
    [] st.pc = "email"   -> extract(st, "email", "phone")
    [] st.pc = "phone"   -> extract(st, "phone", "website")
    [] st.pc = "website" -> extract(st, "website", "loop")
    [] st.pc = "loop" /\ st.idx <= Len(st.lines) ->
         LET f == lineField(st.result, st.lines[st.idx])
         IN  [st EXCEPT !.result = IF f = "none" THEN @
                                   ELSE setField(@, f, cleanField(f, st.lines[st.idx])),
                        !.idx = @ + 1,
                        !.lastIndex = [emailRegex |-> 0, phoneRegex |-> 0, websiteRegex |-> 0]]
    [] st.pc = "loop" /\ st.idx > Len(st.lines) -> [st EXCEPT !.pc = "done"]
    [] OTHER -> st

\* a call run from its entry to its return, nothing else running
RECURSIVE runToReturn(_)
runToReturn(st) == IF st.pc = "done" THEN st.result ELSE runToReturn(stepOf(st))

cleanAndNormalizeData(t) == runToReturn(enter(t))

\* one LeadData object for the whole module
ownObjectShared(i) == 1

\* the call whose LeadData object call i reads and writes: const result = {}
\* makes a new object in each call
ownObject(i) == i

\* calls 1 and 2 are given the same text, the other calls any text
CallInit ==
  /\ EngineIdle
  /\ NormIdle
  /\ CrmIdle
  /\ PageIdle
  /\ ClientIdle
  /\ HandlerIdle
  /\ \E t \in CallTexts, others \in [3..(2 + MaxOthers) -> CallTexts] :
        inv = [i \in 1..(2 + MaxOthers) |-> IF i <= 2 THEN enter(t) ELSE enter(others[i])]

\* call i runs its next statement
Step(i) ==
  /\ inv[i].pc # "done"
  /\ \E st \in {stepOf([inv[i] EXCEPT !.result = inv[ownObject(i)].result])} :
        inv' = [inv EXCEPT ![i] = st, ![ownObject(i)].result = st.result]
  /\ UNCHANGED <<engineVars, normVars, crmVars, pageVars, clientVars, handlerVars>>

CallNext == \E i \in DOMAIN inv : Step(i)

CallSpec == CallInit /\ [][CallNext]_vars

\* C19: whatever the interleaving, a call that has returned has returned the
\* record that a call on the same text returns when it runs alone, so two
\* calls on the same text return equal records; and between statements the
\* match position of every RegExp object is 0.
C19_Deterministic ==
  /\ \A i \in DOMAIN inv :
        /\ inv[i].pc = "done" => inv[i].result = cleanAndNormalizeData(inv[i].text)
        /\ \A r \in DOMAIN inv[i].lastIndex : inv[i].lastIndex[r] = 0
  /\ \A i, j \in DOMAIN inv :
        (inv[i].pc = "done" /\ inv[j].pc = "done" /\ inv[i].text = inv[j].text)
           => inv[i].result = inv[j].result

\* calls 1 and 2 returned the same record with three fields while a call on
\* another text was in its loop with a field of its own
C19_Witness ==
  /\ inv # <<>>
  /\ inv[1].pc = "done"
  /\ inv[2].pc = "done"
  /\ inv[1].result = inv[2].result
  /\ Cardinality(DOMAIN inv[1].result) = 3
  /\ \E i \in DOMAIN inv :
        /\ inv[i].pc = "loop"
        /\ inv[i].text # inv[1].text
        /\ inv[i].result # emptyLead

(***************************************************************************)
(* POST /api/process-card (route.ts 381-455) with its collaborators: the   *)
(* text detection of extractTextFromImage (google-vision.ts 45-90), the    *)
(* insert into the leads table and the background call of triggerCRMSync   *)
(* (route.ts 772-795).  One action per stretch of the handler between two  *)
(* awaits; what a collaborator answers is drawn when it is called.         *)
(***************************************************************************)

\* the texts the text detection can give
OcrTexts == {ScenarioEmailOnly, TextNameCompany, LineAcme}

\* NextResponse.json({ success: false, message }, { status })
failure(status, message) ==
  [status |-> status, success |-> FALSE, message |-> message, error |-> "none",
   lead |-> null, rawText |-> null]

\* the catch of POST (route.ts 444-454)
processingFailed(cause) ==
  [status |-> 500, success |-> FALSE, message |-> "Processing failed", error |-> cause,
   lead |-> null, rawText |-> null]

\* NextResponse.json({ success: true, lead, rawText: fullText })
success(row, rawText) ==
  [status |-> 200, success |-> TRUE, message |-> "none", error |-> "none",
   lead |-> row, rawText |-> rawText]

\* the handler returns response r
Respond(r) == response' = r /\ hpc' = "returned"

\* a request arrives at a process that has just started
PostInit ==
  /\ EngineIdle
  /\ NormIdle
  /\ CrmIdle
  /\ PageIdle
  /\ inv = <<>>
  /\ env \in [{"GOOGLE_VISION_API_KEY", "SUPABASE_URL", "SUPABASE_API_KEY"} -> EnvValues]
  /\ visionClient = null
  /\ supabase = null
  /\ created = [vision |-> 0, supabase |-> 0]
  /\ returned = [vision |-> {}, supabase |-> {}]
  /\ lastCall = [fn |-> "none", outcome |-> "none", fresh |-> FALSE]
  /\ hpc = "formData"
  /\ image = "none"
  /\ fullText = <<>>
  /\ cleanedData = emptyLead
  /\ lead = null
  /\ error = "null"
  /\ response = null
  /\ ocr = "none"
  /\ engineCalls = 0
  /\ leads = <<>>
  /\ sync = <<>>
  /\ trace = <<>>

\* route.ts 384-395: the body is not form data (formData() rejects), or it
\* has no image field, or it has one
ParseForm ==
  /\ hpc = "formData"
  /\ \E body \in {"notFormData", "noImage", "image"} :
        CASE body = "notFormData" ->
               /\ Respond(processingFailed("formData"))
               /\ UNCHANGED image
          [] body = "noImage" ->
               /\ image' = "null"
               /\ Respond(failure(400, "No image provided"))
          [] body = "image" ->
               /\ image' = "File"
               /\ hpc' = "ocr"
               /\ UNCHANGED response
  /\ trace' = IF hpc' = "returned" THEN Append(trace, "response") ELSE trace
  /\ UNCHANGED <<fullText, cleanedData, lead, error, ocr, engineCalls, leads, sync>>
  /\ UNCHANGED <<engineVars, normVars, crmVars, pageVars, clientVars, inv>>

\* the test that lets every text through
noTextNever(t) == FALSE

\* !fullText: the empty string is falsy
noText(t) == t = <<>>

\* route.ts 398-405 and extractTextFromImage: getVisionClient is called
\* outside the try; a rejected textDetection and the throw for an empty list
\* of annotations are both caught and thrown again as "OCR processing
\* failed: ..."; the description of the first annotation, or "", is fullText
ExtractText ==
  /\ hpc = "ocr"
  /\ getVisionClient
  /\ IF getVisionClientThrows
     THEN /\ ocr' = "noClient"
          /\ Respond(processingFailed("Google Vision env vars are not found"))
          /\ UNCHANGED fullText
     ELSE \E detection \in {"rejects", "noAnnotations", "noDescription", "text"},
             t \in OcrTexts :
            /\ ocr' = detection
            /\ CASE detection = "rejects" ->
                      /\ Respond(processingFailed("OCR processing failed: textDetection"))
                      /\ UNCHANGED fullText
                 [] detection = "noAnnotations" ->
                      /\ Respond(processingFailed("OCR processing failed: No text detected in image"))
                      /\ UNCHANGED fullText
                 [] detection \in {"noDescription", "text"} ->
                      /\ fullText' = IF detection = "text" THEN t ELSE <<>>
                      /\ IF noText(fullText')
                         THEN Respond(failure(400, "No text detected in image"))
                         ELSE hpc' = "normalize" /\ UNCHANGED response
  /\ trace' = trace \o <<"ocr">> \o (IF hpc' = "returned" THEN <<"response">> ELSE <<>>)
  /\ UNCHANGED <<image, cleanedData, lead, error, engineCalls, leads, sync>>
  /\ UNCHANGED <<engineVars, normVars, crmVars, pageVars, inv>>

\* route.ts 409: const cleanedData = await cleanAndNormalizeData(fullText)
Normalize ==
  /\ hpc = "normalize"
  /\ cleanedData' = cleanAndNormalizeData(fullText)
  /\ engineCalls' = engineCalls + 1
  /\ hpc' = "store"
  /\ trace' = Append(trace, "normalize")
  /\ UNCHANGED <<image, fullText, lead, error, response, ocr, leads, sync>>
  /\ UNCHANGED <<engineVars, normVars, crmVars, pageVars, clientVars, inv>>

\* the row the insert stores: the cleaned fields, source, created_at and
\* the id the table gives it
newRow(data, id) ==
  setField(setField(setField(data, "source", "Google Vision - date time"),
                    "created_at", "timestamp"), "id", id)

\* route.ts 413-424: getSupabaseClient may throw; the insert answers with an
\* error and no row, or with the stored row
Store ==
  /\ hpc = "store"
  /\ getSupabaseClient
  /\ IF getSupabaseClientThrows
     THEN /\ Respond(processingFailed("Supabase env vars are not found"))
          /\ UNCHANGED <<lead, error, leads>>
     ELSE \E answer \in {"error", "row"} :
            /\ hpc' = "stored"
            /\ UNCHANGED response
            /\ IF answer = "error"
               THEN /\ error' = "PostgrestError"
                    /\ lead' = null
                    /\ UNCHANGED leads
               ELSE /\ error' = "null"
                    /\ lead' = newRow(cleanedData, Len(leads) + 1)
                    /\ leads' = Append(leads, lead')
  /\ trace' = IF hpc' = "returned" THEN Append(trace, "response") ELSE Append(trace, "insert")
  /\ UNCHANGED <<image, fullText, cleanedData, ocr, engineCalls, sync>>
  /\ UNCHANGED <<engineVars, normVars, crmVars, pageVars, inv>>

\* the test that sees no error
isErrorNever(e) == FALSE

\* if (error)
isError(e) == e # "null"

\* the CRM sync triggered before the error test, for failed inserts as well
AfterInsertSyncFirst ==
  /\ hpc = "stored"
  /\ sync' = Append(sync, [leadId |-> IF lead = null THEN 0 ELSE lead["id"], state |-> "inflight"])
  /\ IF isError(error)
     THEN Respond(failure(500, "Failed to store lead data"))
     ELSE IF lead = null
          THEN Respond(processingFailed("TypeError"))
          ELSE Respond(success(lead, fullText))
  /\ trace' = trace \o <<"sync", "response">>
  /\ UNCHANGED <<image, fullText, cleanedData, lead, error, ocr, engineCalls, leads>>
  /\ UNCHANGED <<engineVars, normVars, crmVars, pageVars, clientVars, inv>>

\* route.ts 426-443, one stretch without await: the error test, then
\* triggerCRMSync(lead.id), which runs up to its await fetch(...) and hands
\* back a promise, then the return.  Reading lead.id of null throws.
AfterInsert ==
  /\ hpc = "stored"
  /\ IF isError(error)
     THEN /\ Respond(failure(500, "Failed to store lead data"))
          /\ UNCHANGED sync
     ELSE IF lead = null
          THEN /\ Respond(processingFailed("TypeError"))
               /\ UNCHANGED sync
          ELSE /\ sync' = Append(sync, [leadId |-> lead["id"], state |-> "inflight"])
               /\ Respond(success(lead, fullText))
  /\ trace' = IF sync' # sync THEN trace \o <<"sync", "response">> ELSE Append(trace, "response")
  /\ UNCHANGED <<image, fullText, cleanedData, lead, error, ocr, engineCalls, leads>>
  /\ UNCHANGED <<engineVars, normVars, crmVars, pageVars, clientVars, inv>>

\* a failed sync reported in the response
SyncSettlesReported ==
  \E k \in 1..Len(sync), answer \in {"ok", "notOk", "rejects"} :
     /\ sync[k].state = "inflight"
     /\ sync' = [sync EXCEPT ![k].state = answer]
     /\ response' = IF answer = "ok" THEN response ELSE processingFailed("CRM sync failed")
     /\ UNCHANGED <<hpc, image, fullText, cleanedData, lead, error, ocr, engineCalls, leads, trace>>
     /\ UNCHANGED <<engineVars, normVars, crmVars, pageVars, clientVars, inv>>

\* triggerCRMSync after its await (route.ts 774-794): the fetch answers with
\* an OK status, with another status (the throw of 787 is caught at 791), or
\* rejects (caught at 791); the promise of triggerCRMSync is fulfilled in
\* the three cases
SyncSettles ==
  \E k \in 1..Len(sync), answer \in {"ok", "notOk", "rejects"} :
     /\ sync[k].state = "inflight"
     /\ sync' = [sync EXCEPT ![k].state = answer]
     /\ UNCHANGED <<hpc, image, fullText, cleanedData, lead, error, response, ocr, engineCalls, leads, trace>>
     /\ UNCHANGED <<engineVars, normVars, crmVars, pageVars, clientVars, inv>>

PostNext ==
  \/ ParseForm
  \/ ExtractText
  \/ Normalize
  \/ Store
  \/ AfterInsert
  \/ SyncSettles

PostSpec == PostInit /\ [][PostNext]_vars

\* C15: when the text detection gives no text (no annotation, so that
\* extractTextFromImage throws, or a first annotation with an empty
\* description, so that fullText is ""), the request never calls
\* cleanAndNormalizeData, never inserts a row and never starts a CRM sync,
\* and the handler has returned a failure.
C15_NoTextStopsThePipeline ==
  ocr \in {"noAnnotations", "noDescription"} =>
     /\ engineCalls = 0
     /\ cleanedData = emptyLead
     /\ leads = <<>>
     /\ lead = null
     /\ sync = <<>>
     /\ hpc = "returned"
     /\ ~response.success

\* the text detection gave an empty description and the handler answered
\* before the normalization
C15_Witness ==
  /\ ocr = "noDescription"
  /\ fullText = <<>>
  /\ hpc = "returned"
  /\ response.message = "No text detected in image"
  /\ visionClient # null

\* C16 as stated: whenever no text is detected, the case of zero text
\* annotations included, the response has status 400 and the message "No
\* text detected in image"; status 500 is returned only when the OCR
\* service, the database or the handler itself failed.
C16_NoTextIsInvalidInput ==
  /\ (ocr \in {"noAnnotations", "noDescription"} /\ response # null) =>
        (response.status = 400 /\ response.message = "No text detected in image")
  /\ (response # null /\ response.status = 500) =>
        ocr \notin {"noAnnotations", "noDescription"}

\* C17: when the insert answers with an error, the handler returns status
\* 500 with the message "Failed to store lead data" and no lead, no row is
\* in the table, and no CRM sync is ever started.
C17_InsertErrorIsReported ==
  error # "null" =>
     /\ sync = <<>>
     /\ leads = <<>>
     /\ hpc \in {"stored", "returned"}
     /\ hpc = "returned" =>
          response = [status |-> 500, success |-> FALSE,
                      message |-> "Failed to store lead data", error |-> "none",
                      lead |-> null, rawText |-> null]

\* the insert failed after the record was assembled from a text with fields
C17_Witness ==
  /\ error # "null"
  /\ hpc = "returned"
  /\ engineCalls = 1
  /\ cleanedData # emptyLead
  /\ response.status = 500

\* C18: once the insert has stored the row, the handler returns success:
\* true with that row in the same stretch that starts the sync, so the sync
\* is still in flight when the response is made; whatever the sync does
\* afterwards (OK status, other status, rejected fetch), the response and
\* the table stay as they are.
C18_SyncNeverReachesTheCaller ==
  /\ []((hpc = "returned" /\ error = "null" /\ lead # null) =>
          (/\ response = [status |-> 200, success |-> TRUE, message |-> "none",
                          error |-> "none", lead |-> lead, rawText |-> fullText]
           /\ lead = leads[Len(leads)]
           /\ \E k \in 1..Len(sync) : sync[k].leadId = lead["id"]))
  /\ [][(response = null /\ response' # null /\ response'.success) =>
          (\E k \in 1..Len(sync') :
              sync'[k].leadId = lead["id"] /\ sync'[k].state = "inflight")]_vars
  /\ [][response # null => (response' = response /\ leads' = leads /\ hpc' = hpc)]_vars

\* the fetch of the sync was rejected after the handler had answered success
C18_Witness ==
  /\ hpc = "returned"
  /\ response.success
  /\ response.lead = lead
  /\ Len(sync) = 1
  /\ sync[1].state = "rejects"

(***************************************************************************)
(* The order of the stages of one request                                  *)
(***************************************************************************)

\* the stages of a request that answered with success
successfulRun == <<"ocr", "normalize", "insert", "sync", "response">>

\* the request has answered with a success response
answeredSuccess == response # null /\ response.success

\* C21: a request that answers with success ran OCR, normalization, the
\* insert, the CRM-sync trigger and the response in this order and once
\* each; the sync is triggered at most once in any request, only when the
\* insert returned no error, and for the id of the row just inserted
C21_StagesInOrder ==
  /\ answeredSuccess => trace = successfulRun
  /\ Len(sync) <= 1
  /\ Len(sync) = 1 =>
        /\ error = "null"
        /\ leads # <<>>
        /\ lead = leads[Len(leads)]
        /\ sync[1].leadId = lead["id"]
        /\ SubSeq(trace, 1, 4) = SubSeq(successfulRun, 1, 4)

\* a request has answered with success after triggering the sync of its row
C21_Witness ==
  /\ answeredSuccess
  /\ Len(sync) = 1
  /\ response.lead["id"] = sync[1].leadId

(***************************************************************************)
(* /api/crm-sync (src/app/api/crm-sync/route.ts)                           *)
(*                                                                         *)
(* The JSON body of a POST is a function whose domain is the set of the    *)
(* properties it has.  The requests leave crmProvider to its default.  An  *)
(* error is the sequence of the characters of its message.                 *)
(***************************************************************************)

\* "rate limit"
RateLimit ==
  <<"r","a","t","e"," ","l","i","m","i","t">>

\* "rate limit exceeded"
RateLimitExceeded ==
  <<"r","a","t","e"," ","l","i","m","i","t"," ","e","x","c","e","e","d","e",
    "d">>

\* "temporary service unavailable"
ServiceUnavailable ==
  <<"t","e","m","p","o","r","a","r","y"," ","s","e","r","v","i","c","e"," ",
    "u","n","a","v","a","i","l","a","b","l","e">>

\* "invalid authentication token"
InvalidToken ==
  <<"i","n","v","a","l","i","d"," ","a","u","t","h","e","n","t","i","c","a",
    "t","i","o","n"," ","t","o","k","e","n">>

\* "duplicate contact detected"
DuplicateContact ==
  <<"d","u","p","l","i","c","a","t","e"," ","c","o","n","t","a","c","t"," ",
    "d","e","t","e","c","t","e","d">>

\* "Unexpected token"
UnexpectedToken ==
  <<"U","n","e","x","p","e","c","t","e","d"," ","t","o","k","e","n">>

\* "Body is unusable"
BodyUnusable ==
  <<"B","o","d","y"," ","i","s"," ","u","n","u","s","a","b","l","e">>

\* "Supabase env vars are not found"
SupabaseEnvMissing ==
  <<"S","u","p","a","b","a","s","e"," ","e","n","v"," ","v","a","r","s"," ",
    "a","r","e"," ","n","o","t"," ","f","o","u","n","d">>

\* simulateCRMAPICall, const errors (crm-sync/route.ts 162-167)
errors == {RateLimitExceeded, ServiceUnavailable, InvalidToken, DuplicateContact}

\* error.message.includes(part), the characters compared as they are
messageIncludes(s, part) ==
  \E i \in 1..(Len(s) - Len(part) + 1) : SubSeq(s, i, i + Len(part) - 1) = part

\* the largest retryAttempt a request carries
MaxRetryAttempt == 3

\* the lead ids requests ask for: 1 and 2 are stored, 3 is not
MaxLeadId == 3

\* the bodies of the POST requests: leadId and retryAttempt are each present
\* or left out
CrmBodies ==
  { [f \in {} |-> 0] }
    \cup { [leadId |-> l] : l \in 1..MaxLeadId }
    \cup { [retryAttempt |-> n] : n \in 0..MaxRetryAttempt }
    \cup { [leadId |-> l, retryAttempt |-> n] : l \in 1..MaxLeadId, n \in 0..MaxRetryAttempt }

\* the ids the mock generates (crm-sync/route.ts 87): never the empty string
CrmIds == { <<"HUBSPOT", 1>>, <<"HUBSPOT", 2>> }

\* a row of leads that no sync has touched
unsyncedRow(id) ==
  [id |-> id, crm_id |-> null, crm_provider |-> "null", crm_synced_at |-> "null",
   last_crm_sync_status |-> "null"]

\* body.leadId, undefined (null here) when the body has none
leadIdOf(b) == IF "leadId" \in DOMAIN b THEN <<b.leadId>> ELSE null

\* the row with the given id, as .eq("id", leadId).single() finds it
rowsWithId(id) == { k \in 1..Len(leads) : <<leads[k].id>> = id }

\* NextResponse.json({ success: false, message }, { status })
crmFailure(status, message) == [status |-> status, success |-> FALSE, message |-> message]

\* crm-sync/route.ts 127-131
retryScheduled ==
  [status |-> 200, success |-> FALSE, message |-> "Rate limited, retry scheduled",
   retryIn |-> 60]

\* crm-sync/route.ts 134-141
crmSyncFailed(err) ==
  [status |-> 500, success |-> FALSE, message |-> "CRM sync failed", error |-> err]

\* crm-sync/route.ts 109-115
crmSynced(id) ==
  [status |-> 200, success |-> TRUE, message |-> "Lead successfully synced to HubSpot",
   crmId |-> id, crmProvider |-> "hubspot"]

\* an error leaves the handler: its promise rejects and the framework
\* answers in its place, with none of the handler's bodies
unhandled(err) == [status |-> 500, success |-> FALSE, message |-> "unhandled", error |-> err]

\* request.json() (Fetch, consume body): a body that has been read is
\* unusable and the promise rejects with a TypeError; otherwise the promise
\* is fulfilled with the parsed body
jsonAgain(used, b) == IF used THEN [rejects |-> TRUE] ELSE [rejects |-> FALSE, value |-> b]

\* body.retryAttempt < 3; undefined < 3 is false
belowRetryLimit(b) == "retryAttempt" \in DOMAIN b /\ b.retryAttempt < 3

\* the catch of POST (crm-sync/route.ts 116-142) for error err, the body
\* being read already or not: shouldRetry is false, or it is the promise
\* request.json().then(...), and awaiting a rejected promise throws out of
\* the catch
catch(err, used, b) ==
  IF ~messageIncludes(err, RateLimit)
  THEN crmSyncFailed(err)
  ELSE LET again == jsonAgain(used, b)
       IN  IF again.rejects
           THEN unhandled(BodyUnusable)
           ELSE IF belowRetryLimit(again.value) THEN retryScheduled ELSE crmSyncFailed(err)

\* the handler of POST /api/crm-sync returns response r
CrmRespond(r) == crmResponse' = r /\ cpc' = "returned"

\* a POST request arrives at a process that has just started; two leads are
\* stored and no sync has touched them
CrmInit ==
  /\ EngineIdle
  /\ NormIdle
  /\ PageIdle
  /\ inv = <<>>
  /\ env \in [{"GOOGLE_VISION_API_KEY", "SUPABASE_URL", "SUPABASE_API_KEY"} -> EnvValues]
  /\ visionClient = null
  /\ supabase = null
  /\ created = [vision |-> 0, supabase |-> 0]
  /\ returned = [vision |-> {}, supabase |-> {}]
  /\ lastCall = [fn |-> "none", outcome |-> "none", fresh |-> FALSE]
  /\ hpc = "idle"
  /\ image = "none"
  /\ fullText = <<>>
  /\ cleanedData = emptyLead
  /\ lead = null
  /\ error = "null"
  /\ response = null
  /\ ocr = "none"
  /\ engineCalls = 0
  /\ leads = <<unsyncedRow(1), unsyncedRow(2)>>
  /\ sync = <<>>
  /\ trace = <<>>
  /\ cpc = "json"
  /\ crmBody \in CrmBodies
  /\ bodyUsed = FALSE
  /\ crmError = null
  /\ crmId = null
  /\ crmResponse = null
  /\ crmQuery = null
  /\ gpc = "idle"
  /\ statusResponse = null

\* what the handlers of /api/crm-sync leave alone
crmFrame == UNCHANGED <<engineVars, normVars, pageVars, inv, hpc, image, fullText, cleanedData, lead, error, response, ocr, engineCalls, sync, trace>>

\* crm-sync/route.ts 49-62: the body is read, which uses it up; it is not
\* JSON (json() rejects), or it has no leadId, or getSupabaseClient throws,
\* or the handler goes on to the select
CrmReadBody ==
  /\ cpc = "json"
  /\ bodyUsed' = TRUE
  /\ \E isJson \in BOOLEAN :
        IF ~isJson
        THEN /\ CrmRespond(catch(UnexpectedToken, bodyUsed', crmBody))
             /\ UNCHANGED clientVars
        ELSE IF leadIdOf(crmBody) = null
             THEN /\ CrmRespond(crmFailure(400, "Lead ID is required"))
                  /\ UNCHANGED clientVars
             ELSE /\ getSupabaseClient
                  /\ IF getSupabaseClientThrows
                     THEN CrmRespond(catch(SupabaseEnvMissing, bodyUsed', crmBody))
                     ELSE cpc' = "select" /\ UNCHANGED crmResponse
  /\ UNCHANGED <<crmBody, crmError, crmId, crmQuery, gpc, statusResponse, leads>>
  /\ crmFrame

\* crm-sync/route.ts 65-76: the select answers with an error, as it does
\* when no row has the id, or with the row
CrmSelectLead ==
  /\ cpc = "select"
  /\ \E answer \in {"error", "row"} :
        IF answer = "error" \/ rowsWithId(leadIdOf(crmBody)) = {}
        THEN CrmRespond(crmFailure(404, "Lead not found"))
        ELSE cpc' = "simulate" /\ UNCHANGED crmResponse
  /\ UNCHANGED <<crmBody, bodyUsed, crmError, crmId, crmQuery, gpc, statusResponse, leads>>
  /\ UNCHANGED clientVars
  /\ crmFrame

\* crm-sync/route.ts 84-87 and simulateCRMAPICall (148-184): the call
\* throws one of its four errors, whatever retryAttempt is (the failure
\* rate never falls below 0.02), or returns and the id is generated
CrmSimulate ==
  /\ cpc = "simulate"
  /\ \E err \in errors \cup {null} :
        /\ crmError' = err
        /\ IF err = null
           THEN /\ \E id \in CrmIds : crmId' = id
                /\ cpc' = "update"
                /\ UNCHANGED crmResponse
           ELSE /\ CrmRespond(catch(err, bodyUsed, crmBody))
                /\ UNCHANGED crmId
  /\ UNCHANGED <<crmBody, bodyUsed, crmQuery, gpc, statusResponse, leads>>
  /\ UNCHANGED clientVars
  /\ crmFrame

\* the row after .update({ crm_id, crm_provider, crm_synced_at,
\* last_crm_sync_status }) (crm-sync/route.ts 92-97)
syncedRow(row, id) ==
  [row EXCEPT !.crm_id = id, !.crm_provider = "hubspot", !.crm_synced_at = "now",
              !.last_crm_sync_status = "success"]

\* crm-sync/route.ts 90-115: the update answers with an error and changes
\* no row, or changes the rows with the id; the error is logged and the
\* answer is the same in the two cases
CrmUpdate ==
  /\ cpc = "update"
  /\ \E updateError \in BOOLEAN :
        leads' = IF updateError
                 THEN leads
                 ELSE [k \in 1..Len(leads) |->
                         IF k \in rowsWithId(leadIdOf(crmBody))
                         THEN syncedRow(leads[k], crmId) ELSE leads[k]]
  /\ CrmRespond(crmSynced(crmId))
  /\ UNCHANGED <<crmBody, bodyUsed, crmError, crmId, crmQuery, gpc, statusResponse>>
  /\ UNCHANGED clientVars
  /\ crmFrame

\* the handler of GET /api/crm-sync returns response r
StatusRespond(r) == statusResponse' = r /\ gpc' = "returned"

\* crm-sync/route.ts 218-227
syncStatus(row) ==
  [status |-> 200, success |-> TRUE,
   syncStatus |-> [isSynced |-> row.crm_id # null, crmId |-> row.crm_id,
                   crmProvider |-> row.crm_provider, syncedAt |-> row.crm_synced_at,
                   lastSyncStatus |-> row.last_crm_sync_status]]

\* crm-sync/route.ts 192-202: a GET request arrives once the POST has
\* answered, with a leadId parameter or without one
StatusBegin ==
  /\ cpc = "returned"
  /\ gpc = "idle"
  /\ \E q \in {null} \cup { <<l>> : l \in 1..MaxLeadId } :
        /\ crmQuery' = q
        /\ IF q = null
           THEN /\ StatusRespond(crmFailure(400, "Lead ID is required"))
                /\ UNCHANGED clientVars
           ELSE /\ getSupabaseClient
                /\ IF getSupabaseClientThrows
                   THEN StatusRespond([status |-> 500, success |-> FALSE,
                                       message |-> "Failed to check sync status",
                                       error |-> SupabaseEnvMissing])
                   ELSE gpc' = "select" /\ UNCHANGED statusResponse
  /\ UNCHANGED <<cpc, crmBody, bodyUsed, crmError, crmId, crmResponse, leads>>
  /\ crmFrame

\* crm-sync/route.ts 205-227
StatusSelect ==
  /\ gpc = "select"
  /\ \E answer \in {"error", "row"} :
        IF answer = "error" \/ rowsWithId(crmQuery) = {}
        THEN StatusRespond(crmFailure(404, "Lead not found"))
        ELSE \E k \in rowsWithId(crmQuery) : StatusRespond(syncStatus(leads[k]))
  /\ UNCHANGED <<cpc, crmBody, bodyUsed, crmError, crmId, crmResponse, crmQuery, leads>>
  /\ UNCHANGED clientVars
  /\ crmFrame

CrmNext ==
  \/ CrmReadBody
  \/ CrmSelectLead
  \/ CrmSimulate
  \/ CrmUpdate
  \/ StatusBegin
  \/ StatusSelect

CrmSpec == CrmInit /\ [][CrmNext]_vars

\* the POST has answered after simulateCRMAPICall threw a rate limit error
\* for a request whose retryAttempt is below 3
rateLimitedBelowLimit ==
  /\ cpc = "returned"
  /\ messageIncludes(crmError, RateLimit)
  /\ belowRetryLimit(crmBody)

\* C22: when simulateCRMAPICall throws a rate limit error and the
\* retryAttempt of the request is below 3, POST /api/crm-sync answers with
\* success false, "Rate limited, retry scheduled" and retryIn 60
C22_RateLimitSchedulesRetry == rateLimitedBelowLimit => crmResponse = retryScheduled

\* the GET has answered with the status of the lead that the POST answered
\* success for
statusAfterSuccess ==
  /\ crmResponse # null
  /\ crmResponse.success
  /\ statusResponse # null
  /\ statusResponse.success
  /\ crmQuery = leadIdOf(crmBody)

\* C28: after POST /api/crm-sync answered success with a crmId for a lead,
\* the next GET for that lead reports isSynced true, the same crmId and
\* lastSyncStatus "success"
C28_StatusAgreesWithSync ==
  statusAfterSuccess =>
     /\ statusResponse.syncStatus.isSynced
     /\ statusResponse.syncStatus.crmId = crmResponse.crmId
     /\ statusResponse.syncStatus.lastSyncStatus = "success"

(***************************************************************************)
(* The name test and the keyword lists                                     *)
(***************************************************************************)

\* the line contains one of companyKeywords, letter case ignored
hasCompanyKeyword(line) ==
  \E n \in 1..Len(companyKeywords) :
     includes(toLowerCase(line), toLowerCase(companyKeywords[n]))

\* C23: a line that contains a company keyword or a job-title keyword is
\* never taken as the name
C23_NameExcludesIndicators ==
  \A k \in 1..Len(assigned) :
     assigned[k][1] = "name" =>
        /\ ~hasCompanyKeyword(lines[assigned[k][2]])
        /\ ~isLikelyJobTitle(lines[assigned[k][2]])

(***************************************************************************)
(* The upload page (src/app/page.tsx)                                      *)
(*                                                                         *)
(* Each handler runs from an event to its next await in one step.  A file  *)
(* is the one-element sequence of its name, a message likewise.  The       *)
(* controls are enabled as the last render shows them: the file input      *)
(* while nothing is processing, the button while a file is held, nothing   *)
(* is processing and no validation error is shown (page.tsx 298, 351).     *)
(***************************************************************************)

\* the files the user picks: two cards that pass every check, an image
\* below 800x600, a file that is no image, a GIF, and an 11 MB photo
Files == {"cardA", "cardB", "lowRes", "broken", "gif", "huge"}

\* the selections that may wait for their validation at the same time
MaxValidating == 2

\* validateImage (page.tsx 82-129): the type and the size are tested at
\* once; the dimensions are known when the image has loaded (settled says
\* which of the two), and the promise resolves with null or with a message
validateImage(f) ==
  CASE f = "gif"    -> [settled |-> "atOnce", value |-> <<"Unsupported format">>]
    [] f = "huge"   -> [settled |-> "atOnce", value |-> <<"File too large">>]
    [] f = "lowRes" -> [settled |-> "onload", value |-> <<"Image resolution too low">>]
    [] f = "broken" -> [settled |-> "onerror", value |-> <<"Unable to read image file">>]
    [] OTHER        -> [settled |-> "onload", value |-> null]

\* useState of page.tsx 62-67
initialSteps == <<"pending", "pending", "pending", "pending">>

\* updateStep (page.tsx 71-80) applied to prev
updateStep(prev, stepIndex, status) ==
  [i \in 1..Len(prev) |-> IF i = stepIndex + 1 THEN status ELSE prev[i]]

\* prev.map((step) => ({ ...step, status: "pending" })) (page.tsx 153-155)
allPending(prev) == [i \in 1..Len(prev) |-> "pending"]

\* Array.prototype.findIndex for the test step.status === status
findIndex(list, status) ==
  IF \E i \in 1..Len(list) : list[i] = status
  THEN (CHOOSE i \in 1..Len(list) :
          list[i] = status /\ \A j \in 1..(i - 1) : list[j] # status) - 1
  ELSE -1

\* the page has mounted
PageInit ==
  /\ EngineIdle
  /\ NormIdle
  /\ ClientIdle
  /\ HandlerIdle
  /\ CrmIdle
  /\ inv = <<>>
  /\ file = null
  /\ validationError = null
  /\ validating = {}
  /\ steps = initialSteps
  /\ closureSteps = initialSteps
  /\ ppc = "idle"
  /\ processing = FALSE
  /\ pageError = null
  /\ pageResult = null

\* what the handlers of the page leave alone
pageFrame == UNCHANGED <<engineVars, normVars, clientVars, handlerVars, crmVars, inv>>

\* page.tsx 142-155: handleFileSelect after its await, for selection f
afterValidation(f) ==
  IF validateImage(f).value # null
  THEN /\ validationError' = validateImage(f).value
       /\ file' = null
       /\ UNCHANGED <<pageResult, pageError, steps>>
  ELSE /\ file' = <<f>>
       /\ pageResult' = null
       /\ pageError' = null
       /\ steps' = allPending(steps)
       /\ UNCHANGED validationError

\* page.tsx 131-140: a file is picked; a validation that settles at once
\* resumes the handler before any other event is handled
handleFileSelect ==
  /\ ~processing
  /\ Cardinality(validating) < MaxValidating
  /\ \E f \in Files \ validating :
        IF validateImage(f).settled = "atOnce"
        THEN /\ afterValidation(f)
             /\ UNCHANGED validating
        ELSE /\ validationError' = null
             /\ validating' = validating \cup {f}
             /\ UNCHANGED <<file, pageResult, pageError, steps>>
  /\ UNCHANGED <<closureSteps, ppc, processing>>
  /\ pageFrame

\* img.onload or img.onerror of a waiting selection fires (page.tsx
\* 107-125) and its handleFileSelect resumes
handleFileSelectResumes ==
  /\ \E f \in validating :
        /\ validating' = validating \ {f}
        /\ afterValidation(f)
  /\ UNCHANGED <<closureSteps, ppc, processing>>
  /\ pageFrame

\* the steps the catch of processCard reads (page.tsx 191): the constant of
\* the render whose processCard was called, not the state of the moment
visibleSteps(closed, current) == closed

\* page.tsx 158-171: the button is clicked; processCard closes over the
\* steps of the last render and runs up to await axios.postForm
processCard ==
  /\ ppc = "idle"
  /\ file # null
  /\ ~processing
  /\ validationError = null
  /\ closureSteps' = steps
  /\ processing' = TRUE
  /\ pageError' = null
  /\ steps' = updateStep(steps, 0, "processing")
  /\ ppc' = "postForm"
  /\ UNCHANGED <<file, validationError, validating, pageResult>>
  /\ pageFrame

\* page.tsx 171-180 and 190-204: the request is answered and processCard
\* runs up to its first timeout, or the request fails and the catch and the
\* finally run
processCardAnswered ==
  /\ ppc = "postForm"
  /\ \E answered \in BOOLEAN :
        IF answered
        THEN /\ steps' = updateStep(updateStep(updateStep(updateStep(steps,
                            0, "completed"), 1, "processing"), 1, "completed"), 2, "processing")
             /\ ppc' = "stored"
             /\ UNCHANGED <<pageError, processing>>
        ELSE /\ \E currentStep \in {findIndex(visibleSteps(closureSteps, steps), "processing")} :
                  steps' = IF currentStep # -1 THEN updateStep(steps, currentStep, "error")
                                                ELSE steps
             /\ pageError' = <<"Request failed">>
             /\ processing' = FALSE
             /\ ppc' = "idle"
  /\ UNCHANGED <<file, validationError, validating, closureSteps, pageResult>>
  /\ pageFrame

\* page.tsx 180-186: the first timeout has passed
processCardStored ==
  /\ ppc = "stored"
  /\ steps' = updateStep(updateStep(steps, 2, "completed"), 3, "processing")
  /\ ppc' = "synced"
  /\ UNCHANGED <<file, validationError, validating, closureSteps, processing, pageError, pageResult>>
  /\ pageFrame

\* page.tsx 186-189 and 202-204: the second timeout has passed
processCardSynced ==
  /\ ppc = "synced"
  /\ steps' = updateStep(steps, 3, "completed")
  /\ pageResult' = <<"lead">>
  /\ processing' = FALSE
  /\ ppc' = "idle"
  /\ UNCHANGED <<file, validationError, validating, closureSteps, pageError>>
  /\ pageFrame

PageNext ==
  \/ handleFileSelect
  \/ handleFileSelectResumes
  \/ processCard
  \/ processCardAnswered
  \/ processCardStored
  \/ processCardSynced

PageSpec == PageInit /\ [][PageNext]_vars

\* C24: when the request of processCard fails, the step in "processing"
\* status is switched to "error": no step is left in "processing" status
\* when processCard has finished
C24_FailedStepMarked ==
  [][(ppc = "postForm" /\ ppc' = "idle") =>
        \A k \in 1..Len(steps') : steps'[k] # "processing"]_vars

\* C29: the page holds a file only while it shows no validation error
C29_FileOnlyWithoutError == file # null => validationError = null

(***************************************************************************)
(* cleanAndNormalizeData on lines that need cleaning: every text of at     *)
(* most MaxCleanLines lines drawn from CleanPool.                          *)
(***************************************************************************)

MaxCleanLines == 2

\* "& ,"
LineAmpComma ==
  <<"&"," ",",">>

\* "ACME CORP ,"
LineAcmeCorpComma ==
  <<"A","C","M","E"," ","C","O","R","P"," ",",">>

\* "  ACME   CORP  "
LinePaddedAcme ==
  <<" "," ","A","C","M","E"," "," "," ","C","O","R","P"," "," ">>

\* "ACME 12345"
LineAcme12345 ==
  <<"A","C","M","E"," ","1","2","3","4","5">>

\* "67890"
Line67890 ==
  <<"6","7","8","9","0">>

\* "Bob2 Lee"
LineBob2Lee ==
  <<"B","o","b","2"," ","L","e","e">>

CleanPool ==
  {LineAmpComma, LineAcmeCorpComma, LinePaddedAcme, LineAcme12345, Line67890,
   LineBob2Lee, LineJohnSmith, LineSalesManager, LinePhoneLine}

CleanTexts ==
  {JoinLines(ls) : ls \in UNION {[1..n -> CleanPool] : n \in 0..MaxCleanLines}}

CleanInit ==
  /\ pc = "start"
  /\ text \in CleanTexts
  /\ lines = <<>>
  /\ result = emptyLead
  /\ emailMatches = <<>>
  /\ phoneMatches = <<>>
  /\ websiteMatches = <<>>
  /\ idx = 1
  /\ assigned = <<>>
  /\ NormIdle
  /\ ServerIdle

CleanSpec == CleanInit /\ [][Next]_vars

\* the fields the loop assigns
lineFields == {"name", "company", "job_title"}

\* C25: every field of the record is a non-empty string, so a slot tests
\* as empty exactly when no line has been assigned to it, and no slot is
\* assigned twice
C25_PresentFieldsAreTruthy ==
  /\ \A f \in DOMAIN result : result[f] # <<>>
  /\ \A f \in lineFields :
        isFalsy(result, f) <=> \A k \in 1..Len(assigned) : assigned[k][1] # f
  /\ \A j, k \in 1..Len(assigned) : j # k => assigned[j][1] # assigned[k][1]

\* the first line has filled a slot, a later line passes the test of the
\* same slot and has been left out
C25_Witness ==
  /\ pc = "done"
  /\ Len(lines) = 2
  /\ assigned = << <<"company", 1>> >>
  /\ isCandidateLine(lines[2])
  /\ isLikelyCompany(lines[2])

\* s begins or ends with a whitespace character
hasEdgeWhitespace(s) == Len(s) > 0 /\ (s[1] \in Whitespace \/ s[Len(s)] \in Whitespace)

\* s has two whitespace characters in a row
hasWhitespaceRun(s) == \E i \in 1..(Len(s) - 1) : s[i] \in Whitespace /\ s[i + 1] \in Whitespace

\* C26: the stored company has no leading or trailing whitespace and no run
\* of two or more whitespace characters
C26_CompanyIsTrimmed ==
  "company" \in DOMAIN result =>
     ~hasEdgeWhitespace(result["company"]) /\ ~hasWhitespaceRun(result["company"])

\* C30: the phone candidate holds no line break and at least one line
\* matches the phone pattern
C30_PhoneWithinOneLine ==
  (pc = "done" /\ "phone" \in DOMAIN result) =>
     /\ \A i \in 1..Len(phoneMatches[1]) : phoneMatches[1][i] # "\n"
     /\ \E i \in 1..Len(lines) : isTruthy(match(lines[i], "phoneRegex"))

(***************************************************************************)
(* The rows POST /api/process-card inserts                                 *)
(***************************************************************************)

\* C27: every inserted row has at least one of name, email and company
C27_InsertedRowsIdentifyALead ==
  \A k \in 1..Len(leads) :
     \/ ~isFalsy(leads[k], "name")
     \/ ~isFalsy(leads[k], "email")
     \/ ~isFalsy(leads[k], "company")
====
